---- MODULE Spec2Model ----
(***************************************************************************)
(* Sentinel Scout tools: entity extraction (src/tools/extract_entities.js) *)
(* and PII redaction (src/tools/redact.js), called by the triage agent in  *)
(* any order.  Text is a sequence of characters; a character is a string   *)
(* holding one UTF-16 code unit (non-ASCII ones are written by code point, *)
(* "U+2022").  The regular expressions of the source are kept as syntax    *)
(* trees and run by a backtracking matcher with ECMAScript's priorities.   *)
(***************************************************************************)
EXTENDS Integers, Sequences, FiniteSets, TLC

(* ------------------------------------------------------------------ *)
(* Characters and ECMAScript character classes                         *)
(* ------------------------------------------------------------------ *)
LowerSeq == <<"a","b","c","d","e","f","g","h","i","j","k","l","m",
              "n","o","p","q","r","s","t","u","v","w","x","y","z">>
UpperSeq == <<"A","B","C","D","E","F","G","H","I","J","K","L","M",
              "N","O","P","Q","R","S","T","U","V","W","X","Y","Z">>
Lower == {LowerSeq[k] : k \in 1..26}
Upper == {UpperSeq[k] : k \in 1..26}
Alpha == Lower \cup Upper
Digit == {"0","1","2","3","4","5","6","7","8","9"}

\* non-ASCII code units of the model: bullet, E acute (upper), e acute (lower)
Bullet == "U+2022"
UEacute == "U+00C9"
LEacute == "U+00E9"

\* \w, \s, \p{L}, \p{Lu}
WordChar == Alpha \cup Digit \cup {"_"}
Space == {" ", "\t", "\n", "\r", "\f"}
UniLetter == Alpha \cup {UEacute, LEacute}
UniUpper == Upper \cup {UEacute}

\* undefined and null, as values told apart from every string
Undefined == <<"undefined">>
Null == <<"null">>

\* String.prototype.toUpperCase / toLowerCase on one code unit
ToUpper(c) ==
  IF c \in Lower THEN UpperSeq[CHOOSE k \in 1..26 : LowerSeq[k] = c]
  ELSE IF c = LEacute THEN UEacute ELSE c

ToLower(c) ==
  IF c \in Upper THEN LowerSeq[CHOOSE k \in 1..26 : UpperSeq[k] = c]
  ELSE IF c = UEacute THEN LEacute ELSE c

toLowerCase(s) == [k \in 1..Len(s) |-> ToLower(s[k])]

(* ------------------------------------------------------------------ *)
(* Regular expressions: syntax trees                                   *)
(* ------------------------------------------------------------------ *)
Unbounded == -1

Cls(cs) == [t |-> "set", s |-> cs]
Chr(c) == [t |-> "set", s |-> {c}]
\* a literal character under the i flag (Canonicalize = toUpperCase)
ChrI(c) == [t |-> "set", s |-> {c, ToUpper(c), ToLower(c)}]
Cat(rs) == [t |-> "cat", rs |-> rs]
Alt(rs) == [t |-> "alt", rs |-> rs]
Rep(r, lo, hi) == [t |-> "rep", r |-> r, lo |-> lo, hi |-> hi]
Opt(r) == Rep(r, 0, 1)
Plus(r) == Rep(r, 1, Unbounded)
Star(r) == Rep(r, 0, Unbounded)
Bol == [t |-> "bol"]
WordB == [t |-> "wb"]
AnyChr == [t |-> "dot"]
Eol == [t |-> "eol"]

(* ------------------------------------------------------------------ *)
(* Backtracking matcher.  Ends(r, s, i) is the sequence of positions   *)
(* at which a match of r that starts after s[1..i] can end, in the     *)
(* order in which ECMAScript's backtracking tries them (greedy         *)
(* quantifiers longest first, alternatives left to right).  A position *)
(* is listed once, at its first try: the regular expressions here have *)
(* no back-references, so what follows depends on the position only.   *)
(* ------------------------------------------------------------------ *)
InSeq(q, e) == \E k \in 1..Len(q) : q[k] = e

Merge(a, b) == a \o SelectSeq(b, LAMBDA e : ~InSeq(a, e))

IsWordAt(s, k) == k >= 1 /\ k <= Len(s) /\ s[k] \in WordChar

\* r is a class or ".": whether it takes the character c
Takes(r, c) == IF r.t = "set" THEN c \in r.s ELSE c \notin {"\n", "\r"}

\* the number of characters after s[1..i] that r takes in a row, hi at most
\* (no limit when hi is Unbounded)
RunLen(r, s, i, hi) ==
  LET left == IF i < Len(s) THEN Len(s) - i ELSE 0
      max == IF hi < 0 \/ hi > left THEN left ELSE hi
  IN  CHOOSE n \in 0..max :
        /\ \A j \in 1..n : Takes(r, s[i + j])
        /\ n = max \/ ~Takes(r, s[i + n + 1])

\* a quantifier on a class or ".": the longest run first
RunEnds(r, lo, hi, s, i, run) ==
  IF run < lo THEN <<>> ELSE [k \in 1..(run - lo + 1) |-> i + run - k + 1]

\* the ends after i among es: an iteration that matches the empty string
\* ends the repetition
Progress(es, i) == SelectSeq(es, LAMBDA e : e > i)

\* the repetition may stop at i when no more iterations are required
Here(lo, i) == IF lo = 0 THEN <<i>> ELSE <<>>

RECURSIVE Ends(_, _, _)
RECURSIVE EndsFromAll(_, _, _, _, _)
RECURSIVE CatEnds(_, _, _, _, _)
RECURSIVE AltEnds(_, _, _, _, _)
RECURSIVE RepEnds(_, _, _, _, _, _)
RECURSIVE RepFrom(_, _, _, _, _, _, _)

Ends(r, s, i) ==
  CASE r.t = "set" -> IF i < Len(s) /\ s[i + 1] \in r.s THEN <<i + 1>> ELSE <<>>
    [] r.t = "dot" -> IF i < Len(s) /\ s[i + 1] \notin {"\n", "\r"} THEN <<i + 1>> ELSE <<>>
    [] r.t = "bol" -> IF i = 0 THEN <<i>> ELSE <<>>
    [] r.t = "eol" -> IF i = Len(s) THEN <<i>> ELSE <<>>
    [] r.t = "wb"  -> IF IsWordAt(s, i) # IsWordAt(s, i + 1) THEN <<i>> ELSE <<>>
    [] r.t = "cat" -> CatEnds(r.rs, 1, Len(r.rs), s, <<i>>)
    [] r.t = "alt" -> AltEnds(r.rs, 1, Len(r.rs), s, i)
    [] r.t = "rep" /\ r.r.t \in {"set", "dot"} ->
         RunEnds(r.r, r.lo, r.hi, s, i, RunLen(r.r, s, i, r.hi))
    [] r.t = "rep" -> RepEnds(r.r, r.lo, r.hi, s, i, Progress(Ends(r.r, s, i), i))

\* the ends of r from the positions ps[lo..hi], the ends from an earlier
\* position first (the range is halved)
EndsFromAll(r, s, ps, lo, hi) ==
  CASE lo > hi -> <<>>
    [] lo = hi -> Ends(r, s, ps[lo])
    [] OTHER -> Merge(EndsFromAll(r, s, ps, lo, (lo + hi) \div 2),
                      EndsFromAll(r, s, ps, (lo + hi) \div 2 + 1, hi))

\* the ends of rs[lo], ..., rs[hi] in a row from the positions ps, which
\* are in the order in which they are tried (the range is halved)
CatEnds(rs, lo, hi, s, ps) ==
  CASE ps = <<>> \/ lo > hi -> ps
    [] lo = hi -> EndsFromAll(rs[lo], s, ps, 1, Len(ps))
    [] OTHER -> CatEnds(rs, (lo + hi) \div 2 + 1, hi, s,
                        CatEnds(rs, lo, (lo + hi) \div 2, s, ps))

\* the ends of the alternatives rs[lo..hi] from i, left to right
AltEnds(rs, lo, hi, s, i) ==
  CASE lo > hi -> <<>>
    [] lo = hi -> Ends(rs[lo], s, i)
    [] OTHER -> Merge(AltEnds(rs, lo, (lo + hi) \div 2, s, i),
                      AltEnds(rs, (lo + hi) \div 2 + 1, hi, s, i))

\* a quantifier {lo,hi} on r at i, es being the ends of one more iteration
\* from i: the ends with more iterations first, then i itself.  An end of
\* further iterations lies after i, so it is never i.
RepEnds(r, lo, hi, s, i, es) ==
  CASE hi = 0 -> <<i>>
    [] es = <<>> -> Here(lo, i)
    [] Len(es) = 1 ->
         RepEnds(r, IF lo > 0 THEN lo - 1 ELSE 0, hi - 1, s, es[1],
                 Progress(Ends(r, s, es[1]), es[1])) \o Here(lo, i)
    [] OTHER -> RepFrom(r, lo, hi, s, es, 1, Len(es)) \o Here(lo, i)

\* the ends of the further iterations from es[a..b]
RepFrom(r, lo, hi, s, es, a, b) ==
  CASE a > b -> <<>>
    [] a = b -> RepEnds(r, IF lo > 0 THEN lo - 1 ELSE 0, hi - 1, s, es[a],
                        Progress(Ends(r, s, es[a]), es[a]))
    [] OTHER -> Merge(RepFrom(r, lo, hi, s, es, a, (a + b) \div 2),
                      RepFrom(r, lo, hi, s, es, (a + b) \div 2 + 1, b))

\* the positions from i on at which a match starts, in ascending order
Starts(re, s, i) ==
  SelectSeq([k \in 1..(Len(s) - i + 1) |-> i + k - 1], LAMBDA k : Ends(re, s, k) # <<>>)

\* the match that starts after s[1..i], es being its ends in the order in
\* which they are tried
ExecAt(re, s, i, es) == <<i, es[1]>>

\* ks: the positions from lastIndex on at which a match starts
ExecAmong(re, s, ks) ==
  IF ks = <<>> THEN <<>> ELSE ExecAt(re, s, ks[1], Ends(re, s, ks[1]))

\* RegExp.prototype.exec from lastIndex i: the leftmost match <<start, end>>
\* (positions: the match is s[start+1..end]), or <<>> when there is none
Exec(re, s, i) == ExecAmong(re, s, Starts(re, s, i))

\* the scan of matchAll / replace() at the start position k.  st.ms are the
\* matches so far and st.from is where the next search starts: where the
\* last match ended, one further after an empty match.  A start before
\* st.from lies inside the last match.
MatchStep(re, s, k, st) ==
  IF k < st.from THEN st
  ELSE [ms |-> Append(st.ms, ExecAt(re, s, k, Ends(re, s, k))),
        from |-> IF Ends(re, s, k)[1] = k THEN k + 1 ELSE Ends(re, s, k)[1]]

\* the scan over the starts ks[lo..hi] (the range is halved), st being the
\* state the scan is in before ks[lo]
RECURSIVE MatchScan(_, _, _, _, _, _)
MatchScan(re, s, ks, lo, hi, st) ==
  CASE st.ms = <<>> /\ lo > hi -> st
    [] lo > hi -> st
    [] lo = hi -> MatchStep(re, s, ks[lo], st)
    [] OTHER -> MatchScan(re, s, ks, (lo + hi) \div 2 + 1, hi,
                          MatchScan(re, s, ks, lo, (lo + hi) \div 2, st))

\* ks: the positions from lastIndex i on at which a match starts
MatchesAmong(re, s, i, ks) ==
  MatchScan(re, s, ks, 1, Len(ks), [ms |-> <<>>, from |-> i]).ms

\* String.prototype.matchAll / the scan of replace() with a g-flag regex:
\* every match left to right from lastIndex i
MatchAllFrom(re, s, i) == MatchesAmong(re, s, i, Starts(re, s, i))

matchAll(re, s) == MatchAllFrom(re, s, 0)

test(re, s) == Exec(re, s, 0) # <<>>

Slice(s, a, b) == SubSeq(s, a + 1, b)

\* what replaces s from the end of match ms[k - 1] to the end of match ms[k]
Piece(s, ms, reps, k) ==
  Slice(s, IF k = 1 THEN 0 ELSE ms[k - 1][2], ms[k][1]) \o reps[k]

\* the pieces lo..hi in a row (the range is halved)
RECURSIVE Pieces(_, _, _, _, _)
Pieces(s, ms, reps, lo, hi) ==
  CASE lo > hi -> <<>>
    [] lo = hi -> Piece(s, ms, reps, lo)
    [] OTHER -> Pieces(s, ms, reps, lo, (lo + hi) \div 2)
                \o Pieces(s, ms, reps, (lo + hi) \div 2 + 1, hi)

\* the text with match ms[k] replaced by reps[k], for every k
Splice(s, ms, reps) ==
  Pieces(s, ms, reps, 1, Len(ms))
  \o Slice(s, IF ms = <<>> THEN 0 ELSE ms[Len(ms)][2], Len(s))

\* String.prototype.replace(re, f) with a g-flag regex and a callback f,
\* ms being the matches
replaceMatches(s, ms, F(_)) ==
  IF ms = <<>> THEN s
  ELSE Splice(s, ms, [k \in 1..Len(ms) |-> F(Slice(s, ms[k][1], ms[k][2]))])

\* the receiver s is evaluated before the call
replace(re, s, F(_)) ==
  CASE Len(s) >= 0 -> replaceMatches(s, matchAll(re, s), F)

(* ------------------------------------------------------------------ *)
(* Shared helpers of both tools                                        *)
(* ------------------------------------------------------------------ *)
\* JavaScript truthiness of a value that is a string, undefined or null
Truthy(v) == v # Undefined /\ v # Null /\ v # <<>>

\* mutant: filter(Boolean) alone, repeated values kept
uniq_keepAll(arr) == SelectSeq(arr, Truthy)

\* the indices 1..n in a row
Indices(n) == [k \in 1..n |-> k]

\* the sequences qs[lo], ..., qs[hi] in a row (the range is halved)
RECURSIVE Concat(_, _, _)
Concat(qs, lo, hi) ==
  CASE lo > hi -> <<>>
    [] lo = hi -> qs[lo]
    [] OTHER -> Concat(qs, lo, (lo + hi) \div 2) \o Concat(qs, (lo + hi) \div 2 + 1, hi)

\* the elements of arr at the indices ks
KeepAt(arr, ks) == SubSeq([j \in 1..Len(ks) |-> arr[ks[j]]], 1, Len(ks))

\* Array.from(new Set((arr || []).filter(Boolean))): first occurrences, in order
uniq(arr) ==
  KeepAt(arr, SelectSeq(Indices(Len(arr)),
                        LAMBDA k : Truthy(arr[k]) /\ \A j \in 1..(k - 1) : arr[j] # arr[k]))

\* (s || '').replace(/\D+/g, '')
onlyDigits(s) == IF ~Truthy(s) THEN <<>> ELSE SelectSeq(s, LAMBDA c : c \in Digit)

\* '*'.repeat(Math.max(0, n))
Stars(n) == [k \in 1..(IF n > 0 THEN n ELSE 0) |-> "*"]

\* index (from 1) of the first c in s, 0 when there is none
IndexOf(s, c) ==
  IF \E k \in 1..Len(s) : s[k] = c
  THEN CHOOSE k \in 1..Len(s) : s[k] = c /\ \A j \in 1..(k - 1) : s[j] # c
  ELSE 0

\* a occurs in s as a contiguous substring
Occurs(a, s) ==
  \E k \in 0..(Len(s) - Len(a)) : SubSeq(s, k + 1, k + Len(a)) = a

Sep == Space \cup {"-", "."}
LocalCls == Alpha \cup Digit \cup {".", "_", "%", "+", "-"}
HandleCls == Alpha \cup Digit \cup {"_", ".", "-"}

PHONE_RE ==
  Cat(<<Opt(Cat(<<Alt(<<Chr("+"), Cat(<<Chr("0"), Chr("0")>>)>>),
                  Rep(Cls(Digit), 1, 3), Star(Cls(Sep))>>)),
        Opt(Cat(<<Chr("("), Rep(Cls(Digit), 2, 4), Chr(")"), Star(Cls(Sep))>>)),
        Rep(Cls(Digit), 2, 4),
        Rep(Cat(<<Opt(Cls(Sep)), Cls(Digit)>>), 5, 10)>>)

HANDLE_RE ==
  Cat(<<Alt(<<Bol, Cls(Space)>>), Chr("@"), Rep(Cls(HandleCls), 3, 30), WordB>>)

(* ------------------------------------------------------------------ *)
(* src/tools/redact.js                                                 *)
(* ------------------------------------------------------------------ *)
Redact_EMAIL_RE ==
  Cat(<<Plus(Cls(LocalCls)), Chr("@"),
        Plus(Cls(Alpha \cup Digit \cup {".", "-"})), Chr("."),
        Rep(Cls(Alpha), 2, Unbounded)>>)

UrlPathCls ==
  WordChar \cup {"-", ".", "_", "~", ":", "/", "?", "#", "[", "]", "@", "!",
                 "$", "&", "'", "(", ")", "*", "+", ",", ";", "=", "%"}

URL_RE ==
  Cat(<<ChrI("h"), ChrI("t"), ChrI("t"), ChrI("p"), Opt(ChrI("s")),
        Chr(":"), Chr("/"), Chr("/"),
        Plus(Cls(WordChar \cup {".", "-"})),
        Opt(Cat(<<Chr("/"), Star(Cls(UrlPathCls))>>))>>)

REDACTED_URL == <<"[","R","E","D","A","C","T","E","D","_","U","R","L","]">>
REDACTED_PHONE == <<"[","R","E","D","A","C","T","E","D","_","P","H","O","N","E","]">>
REDACTED_PHONE_OPEN == <<"[","R","E","D","A","C","T","E","D","_","P","H","O","N","E",":">>
REDACTED_NAME == <<"[","R","E","D","A","C","T","E","D","_","N","A","M","E","]">>
GENERIC_HANDLE == <<"@", "*", "*", "*">>

\* mutant: three characters of the local part are kept
maskEmail_keep3(m) ==
  LET at == IndexOf(m, "@")
      local == SubSeq(m, 1, at - 1)
      domain == SubSeq(m, at + 1, Len(m))
      keep == IF Len(local) < 3 THEN Len(local) ELSE 3
  IN  SubSeq(local, 1, keep) \o Stars(Len(local) - keep) \o <<"@">> \o domain

\* m is the matched text local@domain; neither class holds "@", so the
\* first "@" of m parts capture 1 from capture 2
maskEmail(m) ==
  LET at == IndexOf(m, "@")
      local == SubSeq(m, 1, at - 1)
      domain == SubSeq(m, at + 1, Len(m))
      keep == IF Len(local) < 2 THEN Len(local) ELSE 2
  IN  SubSeq(local, 1, keep) \o Stars(Len(local) - keep) \o <<"@">> \o domain

\* mutant: the last four digits are kept
formatMaskedPhone_keep4(raw) ==
  LET digits == onlyDigits(raw)
      tail == SubSeq(digits, IF Len(digits) > 4 THEN Len(digits) - 3 ELSE 1, Len(digits))
  IN  IF digits = <<>> THEN REDACTED_PHONE
      ELSE REDACTED_PHONE_OPEN \o <<Bullet, Bullet>> \o tail \o <<"]">>

formatMaskedPhone(raw) ==
  LET digits == onlyDigits(raw)
      tail == SubSeq(digits, IF Len(digits) > 2 THEN Len(digits) - 1 ELSE 1, Len(digits))
  IN  IF digits = <<>> THEN REDACTED_PHONE
      ELSE REDACTED_PHONE_OPEN \o <<Bullet, Bullet>> \o tail \o <<"]">>

\* mutant: the whole user name is replaced by stars
maskHandle_noFirst(m) ==
  LET prefix == IF m[1] = "@" THEN <<>> ELSE <<m[1]>>
      user == SubSeq(m, Len(prefix) + 2, Len(m))
  IN  prefix \o <<"@">> \o Stars(Len(user))

\* m is prefix + "@" + user, prefix being empty or one white-space character
maskHandle(m) ==
  LET prefix == IF m[1] = "@" THEN <<>> ELSE <<m[1]>>
      user == SubSeq(m, Len(prefix) + 2, Len(m))
      keep == IF Len(user) < 1 THEN Len(user) ELSE 1
  IN  prefix \o <<"@">> \o SubSeq(user, 1, keep) \o Stars(Len(user) - keep)

maskUrl(m) == REDACTED_URL

\* ks: the indices of the characters of s that are no white space
TrimTo(s, ks) == IF ks = <<>> THEN <<>> ELSE SubSeq(s, ks[1], ks[Len(ks)])

\* String.prototype.trim
trim(s) == TrimTo(s, SelectSeq(Indices(Len(s)), LAMBDA k : s[k] \notin Space))

\* s.split(/\s+/).filter(Boolean): the maximal runs of non-white-space
RECURSIVE SplitWords(_)
SplitWords(s) ==
  IF s = <<>> THEN <<>>
  ELSE IF s[1] \in Space THEN SplitWords(Tail(s))
  ELSE LET n == IF \E k \in 1..Len(s) : s[k] \in Space
                THEN (CHOOSE k \in 1..Len(s) : s[k] \in Space /\ \A j \in 1..(k - 1) : s[j] \notin Space) - 1
                ELSE Len(s)
       IN  <<SubSeq(s, 1, n)>> \o SplitWords(SubSeq(s, n + 1, Len(s)))

RECURSIVE JoinMasked(_)
JoinMasked(parts) ==
  IF parts = <<>> THEN <<>>
  ELSE <<parts[1][1], "*", "*", "*">>
       \o (IF Len(parts) > 1 THEN <<" ">> ELSE <<>>) \o JoinMasked(Tail(parts))

maskName(n) ==
  LET parts == SplitWords(trim(n))
  IN  IF parts = <<>> THEN REDACTED_NAME ELSE JoinMasked(parts)

\* n.replace(/[.*+?^${}()|[\]\\]/g, '\\$&')
SyntaxChars == {".", "*", "+", "?", "^", "$", "{", "}", "(", ")", "|", "[", "]", "\\"}

\* mutant: the name reaches the pattern unescaped
escapeRegExp_unescaped(n) == n

escapeRegExp(n) ==
  Concat([k \in 1..Len(n) |-> IF n[k] \in SyntaxChars THEN <<"\\", n[k]>> ELSE <<n[k]>>],
         1, Len(n))

\* new RegExp(pattern, 'gi'), for patterns made of literal characters,
\* escapes, ".", "^", "$" and the quantifiers "*", "+", "?".  err is
\* "SyntaxError" where the constructor throws (nothing to repeat, unmatched
\* ")", unterminated group or class, "\" at the end), and "Unmodelled" for a
\* well-formed group, class, alternation, brace or lazy quantifier, which
\* this parser does not expand.
IsAssertion(r) == r.t \in {"wb", "bol", "eol"}

EscapeAtom(c) ==
  CASE c = "b" -> WordB
    [] c = "d" -> Cls(Digit)
    [] c = "w" -> Cls(WordChar)
    [] c = "s" -> Cls(Space)
    [] OTHER -> ChrI(c)

HasLater(p, k, c) == \E j \in (k + 1)..Len(p) : p[j] = c /\ p[j - 1] # "\\"

Quantifiers == {"*", "+", "?"}

\* the number of "\" in a row that end just before p[k]
SlashesBefore(p, k) ==
  CHOOSE n \in 0..(k - 1) :
    /\ \A j \in (k - n)..(k - 1) : p[j] = "\\"
    /\ n = k - 1 \/ p[k - n - 1] # "\\"

\* p[k] is the character that a "\" escapes
Escaped(p, k) == SlashesBefore(p, k) % 2 = 1

\* p[k] is a quantifier character that is not escaped
IsQuant(p, k) == k >= 1 /\ k <= Len(p) /\ p[k] \in Quantifiers /\ ~Escaped(p, k)

\* a token (an atom with its quantifier, if any) starts at p[k], as long as
\* the pattern is well-formed before p[k]: p[k] is neither escaped nor the
\* quantifier of the atom that ends at p[k - 1]
TokenStart(p, k) == ~Escaped(p, k) /\ ~(IsQuant(p, k) /\ k > 1 /\ ~IsQuant(p, k - 1))

\* the atom that ends before p[nx], with the quantifier p[nx] if it is one
Quantified(p, atom, nx) ==
  CASE ~IsQuant(p, nx) -> [err |-> "none", node |-> atom]
    [] IsAssertion(atom) -> [err |-> "SyntaxError", node |-> atom]
    [] nx < Len(p) /\ p[nx + 1] = "?" -> [err |-> "Unmodelled", node |-> atom]
    [] p[nx] = "*" -> [err |-> "none", node |-> Star(atom)]
    [] p[nx] = "+" -> [err |-> "none", node |-> Plus(atom)]
    [] OTHER -> [err |-> "none", node |-> Opt(atom)]

Bad(e) == [err |-> e, node |-> Bol]

\* the token that starts at p[k]
TokenAt(p, k) ==
  CASE p[k] = "\\" -> IF k = Len(p) THEN Bad("SyntaxError")
                       ELSE Quantified(p, EscapeAtom(p[k + 1]), k + 2)
    [] p[k] \in Quantifiers -> Bad("SyntaxError")
    [] p[k] = ")" -> Bad("SyntaxError")
    [] p[k] = "(" -> IF HasLater(p, k, ")") THEN Bad("Unmodelled") ELSE Bad("SyntaxError")
    [] p[k] = "[" -> IF HasLater(p, k, "]") THEN Bad("Unmodelled") ELSE Bad("SyntaxError")
    [] p[k] \in {"|", "{"} -> Bad("Unmodelled")
    [] p[k] = "." -> Quantified(p, AnyChr, k + 1)
    [] p[k] = "^" -> Quantified(p, Bol, k + 1)
    [] p[k] = "$" -> Quantified(p, Eol, k + 1)
    [] OTHER -> Quantified(p, ChrI(p[k]), k + 1)

\* the tokens of p that start at the positions ks
TokensAt(p, ks) == SubSeq([j \in 1..Len(ks) |-> TokenAt(p, ks[j])], 1, Len(ks))

\* the tokens of p, left to right
Tokens(p) == TokensAt(p, SelectSeq(Indices(Len(p)), LAMBDA k : TokenStart(p, k)))

\* toks: the tokens of the pattern; the leftmost error is the one thrown
Parsed(toks, errs) ==
  IF errs # <<>> THEN [err |-> errs[1].err, re |-> Cat(<<>>)]
  ELSE [err |-> "none", re |-> Cat(SubSeq([j \in 1..Len(toks) |-> toks[j].node], 1, Len(toks)))]

ParseTokens(toks) == Parsed(toks, SelectSeq(toks, LAMBDA t : t.err # "none"))

RegExp(pattern) == ParseTokens(Tokens(pattern))

SyntaxError == <<"SyntaxError">>
TypeError == <<"TypeError">>
IsThrown(v) == v \in {SyntaxError, TypeError, <<"Unmodelled">>}

\* the body of the loop `for (const n of names)`, from names[k] on.  The
\* replacement maskName(n) is a string; it holds no "$" pattern because
\* the character after the first one of a word is always "*".
\* one pass of the loop, rx being new RegExp("\\b" + escapeRegExp(n) + "\\b", "gi")
RECURSIVE redactNames(_, _, _)
redactName(out, names, k, rx) ==
  IF rx.err # "none" THEN <<rx.err>>
  ELSE redactNames(replace(rx.re, out, LAMBDA m : maskName(names[k])), names, k + 1)

\* out is the value of the variable at the start of the pass
redactNames(out, names, k) ==
  CASE k > Len(names) \/ Len(out) < 0 -> out
    [] ~Truthy(names[k]) -> redactNames(out, names, k + 1)
    [] OTHER -> redactName(out, names, k,
                           RegExp(<<"\\", "b">> \o escapeRegExp(names[k]) \o <<"\\", "b">>))

\* the four pattern steps of redactText, each on the result of the one before
afterUrl(text) == replace(URL_RE, text, maskUrl)
afterEmail(text) == replace(Redact_EMAIL_RE, afterUrl(text), maskEmail)
afterPhone(text) == replace(PHONE_RE, afterEmail(text), formatMaskedPhone)
afterHandle(text) == replace(HANDLE_RE, afterPhone(text), maskHandle)

\* mutant: the name loop runs whatever the mode
redactText_anyMode(text, mode, names) ==
  IF ~Truthy(text) THEN <<>> ELSE redactNames(afterHandle(text), names, 1)

\* if (mode === 'strict' && Array.isArray(names) && names.length) { ... }
namesStep(out, mode, names) ==
  IF mode = "strict" /\ names # <<>> THEN redactNames(out, names, 1) ELSE out

redactText(text, mode, names) ==
  IF ~Truthy(text) THEN <<>> ELSE namesStep(afterHandle(text), mode, names)

Keys == {"emails", "phones", "handles", "names"}

HANDLE_SHAPE_RE ==
  Cat(<<Bol, Opt(Chr("@")), Rep(Cls(HandleCls), 1, 64), Eol>>)

redactHandle(h) ==
  LET t == trim(h)
      m == Exec(HANDLE_SHAPE_RE, t, 0)
      user == IF t[1] = "@" THEN Tail(t) ELSE t
      keep == IF Len(user) < 1 THEN Len(user) ELSE 1
  IN  IF m = <<>> THEN GENERIC_HANDLE
      ELSE <<"@">> \o SubSeq(user, 1, keep) \o Stars(Len(user) - keep)

Map(arr, F(_)) == [k \in 1..Len(arr) |-> F(arr[k])]

\* An entity set is a record: keys is the set of properties that hold an
\* array, and a property outside keys reads as the empty sequence.
redactEntities(entities, mode) ==
  [keys    |-> {k \in entities.keys : k # "names" \/ mode = "strict"},
   emails  |-> IF "emails" \in entities.keys
               THEN Map(uniq(entities.emails), LAMBDA e : replace(Redact_EMAIL_RE, e, maskEmail))
               ELSE <<>>,
   phones  |-> IF "phones" \in entities.keys
               THEN Map(uniq(entities.phones), formatMaskedPhone)
               ELSE <<>>,
   handles |-> IF "handles" \in entities.keys
               THEN Map(uniq(entities.handles), redactHandle)
               ELSE <<>>,
   names   |-> IF mode = "strict" /\ "names" \in entities.keys
               THEN Map(uniq(entities.names), maskName)
               ELSE <<>>]

\* redactContent({ text = '', entities = {}, mode = 'strict' }): thrown is
\* "none" when the call returns
RedactResult(safe_text, safe_entities) ==
  IF IsThrown(safe_text)
  THEN [thrown |-> safe_text[1], safe_text |-> <<>>, safe_entities |-> safe_entities]
  ELSE [thrown |-> "none", safe_text |-> safe_text, safe_entities |-> safe_entities]

redactContent(text, entities, mode) ==
  RedactResult(redactText(IF text = Undefined THEN <<>> ELSE text, mode, entities.names),
               redactEntities(entities, mode))

(* ------------------------------------------------------------------ *)
(* src/tools/extract_entities.js                                       *)
(* ------------------------------------------------------------------ *)
AlnumDash == Alpha \cup Digit \cup {"-"}

Extract_EMAIL_RE ==
  Cat(<<WordB, Plus(Cls(LocalCls)), Chr("@"), Plus(Cls(AlnumDash)),
        Plus(Cat(<<Chr("."), Plus(Cls(AlnumDash))>>)), WordB>>)

WORD_RE ==
  Cat(<<Cls(UniLetter), Star(Cls(UniLetter \cup {"'", "-"})), Opt(Chr("."))>>)

\* m is the matched text; capture 1 is what stands before its first "@"
normalizeEmail(m) == toLowerCase(m)

MinPhoneDigits == 7
MaxPhoneDigits == 16

\* mutant: the upper limit on the digit count is dropped
plausiblyPhone_noUpperLimit(raw) ==
  LET digits == onlyDigits(raw)
      hasPlus == test(Cat(<<Bol, Star(Cls(Space)), Chr("+")>>), raw)
  IN  IF Len(digits) < MinPhoneDigits THEN <<>>
      ELSE (IF hasPlus THEN <<"+">> ELSE <<>>) \o digits

\* null is modelled by the empty sequence, which no reported phone equals
plausiblyPhone(raw) ==
  LET digits == onlyDigits(raw)
      hasPlus == test(Cat(<<Bol, Star(Cls(Space)), Chr("+")>>), raw)
  IN  IF Len(digits) < MinPhoneDigits \/ Len(digits) > MaxPhoneDigits THEN <<>>
      ELSE (IF hasPlus THEN <<"+">> ELSE <<>>) \o digits

RECURSIVE StripTrailingDots(_)
StripTrailingDots(u) ==
  IF u # <<>> /\ u[Len(u)] = "." THEN StripTrailingDots(SubSeq(u, 1, Len(u) - 1)) ELSE u

MinHandleLen == 3

\* user is capture 2 of HANDLE_RE; null is modelled by the empty sequence
normalizeHandle(user) ==
  LET u == StripTrailingDots(user)
  IN  IF Len(u) < MinHandleLen THEN <<>> ELSE <<"@">> \o u

\* capture 2 of a HANDLE_RE match m (prefix + "@" + user)
HandleUser(m) == SubSeq(m, IF m[1] = "@" THEN 2 ELSE 3, Len(m))

StopWords ==
  {<<"a","n","d">>, <<"o","r">>, <<"t","h","e">>, <<"o","f">>, <<"f","o","r">>,
   <<"i","n">>, <<"o","n">>, <<"t","o">>, <<"f","r","o","m">>, <<"w","i","t","h">>,
   <<"b","y">>, <<"d","e">>, <<"d","a">>, <<"v","o","n">>, <<"v","a","n">>,
   <<"b","i","n">>, <<"a","l">>}

\* mutant: the first letter may be of either case
isCap_anyCase(w) ==
  test(Cat(<<Bol, Cls(UniLetter), Rep(Cls(UniLetter \cup {"'", "-"}), 1, Unbounded), Eol>>), w)

\* /^(\p{Lu}[\p{L}'\-]{1,})$/u
isCap(w) ==
  test(Cat(<<Bol, Cls(UniUpper), Rep(Cls(UniLetter \cup {"'", "-"}), 1, Unbounded), Eol>>), w)

\* /^(?:and|or|...)$/i
isStop(w) == toLowerCase(w) \in StopWords

\* ps: the positions of the line ends of s, in ascending order
LinesBetween(s, ps) ==
  SubSeq([j \in 1..(Len(ps) + 1) |->
            SubSeq(s, IF j = 1 THEN 1 ELSE ps[j - 1] + 1,
                      IF j > Len(ps) THEN Len(s) ELSE ps[j] - 1)],
         1, Len(ps) + 1)

\* String(text).split(/\n|\r/)
SplitLines(s) ==
  LinesBetween(s, SelectSeq(Indices(Len(s)), LAMBDA k : s[k] \in {"\n", "\r"}))

MaxLines == 500
MaxNames == 20

HTTP_RE ==
  Cat(<<ChrI("h"), ChrI("t"), ChrI("t"), ChrI("p"), Opt(ChrI("s")), Chr(":"), Chr("/"), Chr("/")>>)

AT_WORD_RE == Cat(<<Chr("@"), Cls(WordChar)>>)

\* if (w1 && w2 && isCap(w1) && isCap(w2) && !isStop(w1) && !isStop(w2))
IsPairAt(words, i) ==
  /\ i + 1 <= Len(words)
  /\ isCap(words[i]) /\ isCap(words[i + 1])
  /\ ~isStop(words[i]) /\ ~isStop(words[i + 1])

\* what is pushed for the pair at words[i]: candidate2, and the candidate of
\* three words if (w3 && isCap(w3) && !isStop(w3))
PushedAt(words, i) ==
  <<words[i] \o <<" ">> \o words[i + 1]>>
  \o (IF i + 2 <= Len(words) /\ isCap(words[i + 2]) /\ ~isStop(words[i + 2])
      THEN <<words[i] \o <<" ">> \o words[i + 1] \o <<" ">> \o words[i + 2]>>
      ELSE <<>>)

\* the loop `for (let i = 0; i < words.length; i++)` from index i (from 1)
RECURSIVE ScanWords(_, _)
ScanWords(words, i) ==
  CASE i > Len(words) -> <<>>
    [] IsPairAt(words, i) -> PushedAt(words, i) \o ScanWords(words, i + 2)
    [] OTHER -> ScanWords(words, i + 1)

\* trimmed.match(WORD_RE) || [], ms being the matches
Words(trimmed, ms) ==
  SubSeq([k \in 1..Len(ms) |-> Slice(trimmed, ms[k][1], ms[k][2])], 1, Len(ms))

\* what one pass of the loop `for (const line of lines)` pushes, trimmed
\* being line.trim(): nothing when the line is skipped
LineCandidates(trimmed) ==
  CASE trimmed = <<>> -> <<>>
    [] test(HTTP_RE, trimmed) \/ test(AT_WORD_RE, trimmed) -> <<>>
    [] OTHER -> ScanWords(Words(trimmed, matchAll(WORD_RE, trimmed)), 1)

\* what the passes push, line by line, the passes that push nothing left out
Pushes(lines) ==
  SelectSeq(SubSeq([k \in 1..Len(lines) |-> LineCandidates(trim(lines[k]))], 1, Len(lines)),
            LAMBDA c : c # <<>>)

\* the loop is left after the first pass at the end of which out holds max
\* candidates or more: the number of passes of ps that are made (max > 0)
PassesMade(ps, max) ==
  IF \E j \in 1..Len(ps) : Len(Concat(ps, 1, j)) >= max
  THEN CHOOSE j \in 1..Len(ps) :
         /\ Len(Concat(ps, 1, j)) >= max
         /\ \A i \in 1..(j - 1) : Len(Concat(ps, 1, i)) < max
  ELSE Len(ps)

\* ps: what the passes push
Pushed(ps, max) == Concat(ps, 1, PassesMade(ps, max))

\* the loop `for (const line of lines)`: out when it is left
ScanLines(lines, max) == Pushed(Pushes(lines), max)

\* mutant: nothing is cut off
Take_all(s, n) == s

Take(s, n) == SubSeq(s, 1, IF Len(s) < n THEN Len(s) ELSE n)

extractNameCandidates(text, max) ==
  IF ~Truthy(text) THEN <<>>
  ELSE Take(uniq(ScanLines(Take(SplitLines(text), MaxLines), max)), max)

\* the matches of a g-flag regex as strings
MatchStrings(re, s) == Map(matchAll(re, s), LAMBDA m : Slice(s, m[1], m[2]))

\* raw.replace(EMAIL_RE, ' ')
redactedEmails(raw) == replace(Extract_EMAIL_RE, raw, LAMBDA m : <<" ">>)

\* the arrays filled by the three loops, before uniq
rawEmails(raw) == Map(MatchStrings(Extract_EMAIL_RE, raw), normalizeEmail)
rawPhones(raw) ==
  SelectSeq(Map(MatchStrings(PHONE_RE, raw), plausiblyPhone), Truthy)
\* mutant: handles are matched on the raw text
handleSource_raw(raw) == [txt |-> raw, org |-> [k \in 1..Len(raw) |-> k]]

\* the text the handle loop scans; org[k] is the position in raw of its k-th
\* character, 0 for the blank that stands for an email
handleSource(raw) ==
  LET ms == matchAll(Extract_EMAIL_RE, raw)
  IN  [txt |-> redactedEmails(raw),
       org |-> Splice([k \in 1..Len(raw) |-> k], ms, [k \in 1..Len(ms) |-> <<0>>])]

rawHandles(raw) ==
  SelectSeq(Map(MatchStrings(HANDLE_RE, handleSource(raw).txt),
                LAMBDA m : normalizeHandle(HandleUser(m))), Truthy)

\* const raw = String(text || '')
rawText(text) == IF Truthy(text) THEN text ELSE <<>>

\* extractEntities({ text }); thrown is "none" when the call returns, and
\* "TypeError" when matchAll is called on something that is no string
extractEntities(text) ==
  LET raw == rawText(text)
  IN  IF raw \in {Undefined, Null}
      THEN [thrown |-> "TypeError", keys |-> {}, emails |-> <<>>, phones |-> <<>>,
            handles |-> <<>>, names |-> <<>>]
      ELSE [thrown  |-> "none",
            keys    |-> Keys,
            emails  |-> uniq(rawEmails(raw)),
            phones  |-> uniq(rawPhones(raw)),
            handles |-> uniq(rawHandles(raw)),
            names   |-> uniq(extractNameCandidates(raw, MaxNames))]

(* ------------------------------------------------------------------ *)
(* The g-flag regexes of the two modules are module-level objects: the *)
(* lastIndex of each outlives a call.  X_ are those of                 *)
(* extract_entities.js, R_ those of redact.js.                         *)
(* ------------------------------------------------------------------ *)
GlobalRegexes ==
  {"X_EMAIL", "X_PHONE", "X_HANDLE", "X_WORD", "R_URL", "R_EMAIL", "R_PHONE", "R_HANDLE"}

ZeroIndex == [r \in GlobalRegexes |-> 0]

\* the end of the first match of ms, 0 when there is none
FirstEnd(ms) == IF ms = <<>> THEN 0 ELSE ms[1][2]

\* mutant: the matches are taken with exec on the shared regex and the loop
\* stops at the first one, which leaves lastIndex at its end
lastIndexAfterMatchAll_shared(li, ms) == FirstEnd(ms)

\* s.matchAll(re) iterates a clone of re that starts at re.lastIndex; re
\* itself is not written
lastIndexAfterMatchAll(li, ms) == li

\* s.replace(re, ..) and s.match(re) with a g-flag regex set re.lastIndex to 0
\* before the first search, and the search that ends the scan leaves 0
lastIndexAfterReplace(li) == 0

MatchStringsFrom(re, s, i) == Map(MatchAllFrom(re, s, i), LAMBDA m : Slice(s, m[1], m[2]))

\* the line is one that extractNameCandidates tokenizes with WORD_RE
Tokenized(line) ==
  /\ trim(line) # <<>>
  /\ ~(test(HTTP_RE, trim(line)) \/ test(AT_WORD_RE, trim(line)))

TokenizesSome(lines) == \E k \in 1..Len(lines) : Tokenized(lines[k])

\* extractEntities({ text }) when the regexes' lastIndex values are li
extractEntitiesAt(text, li) ==
  LET raw == rawText(text)
  IN  IF raw \in {Undefined, Null}
      THEN [thrown |-> "TypeError", keys |-> {}, emails |-> <<>>, phones |-> <<>>,
            handles |-> <<>>, names |-> <<>>]
      ELSE [thrown  |-> "none",
            keys    |-> Keys,
            emails  |-> uniq(Map(MatchStringsFrom(Extract_EMAIL_RE, raw, li.X_EMAIL),
                                 normalizeEmail)),
            phones  |-> uniq(SelectSeq(Map(MatchStringsFrom(PHONE_RE, raw, li.X_PHONE),
                                           plausiblyPhone), Truthy)),
            handles |-> uniq(SelectSeq(Map(MatchStringsFrom(HANDLE_RE, handleSource(raw).txt,
                                                            li.X_HANDLE),
                                           LAMBDA m : normalizeHandle(HandleUser(m))), Truthy)),
            names   |-> uniq(extractNameCandidates(raw, MaxNames))]

\* the lastIndex values that extractEntities({ text }) leaves
lastIndexAfterExtract(text, li) ==
  LET raw == rawText(text)
  IN  IF raw \in {Undefined, Null} THEN li
      ELSE [li EXCEPT
              !.X_EMAIL  = lastIndexAfterReplace(
                             lastIndexAfterMatchAll(li.X_EMAIL,
                                                    MatchAllFrom(Extract_EMAIL_RE, raw, li.X_EMAIL))),
              !.X_PHONE  = lastIndexAfterMatchAll(li.X_PHONE,
                                                  MatchAllFrom(PHONE_RE, raw, li.X_PHONE)),
              !.X_HANDLE = lastIndexAfterMatchAll(li.X_HANDLE,
                                                  MatchAllFrom(HANDLE_RE, handleSource(raw).txt,
                                                               li.X_HANDLE)),
              !.X_WORD   = IF raw # <<>> /\ TokenizesSome(Take(SplitLines(raw), MaxLines))
                           THEN lastIndexAfterReplace(li.X_WORD) ELSE li.X_WORD]

\* the lastIndex values that redactContent({ text, entities, mode }) leaves:
\* redactEntities runs replace(EMAIL_RE, ..) on every email of the entity
\* set, redactText the four replaces on a text that is not empty
lastIndexAfterRedact(text, entities, li) ==
  [li EXCEPT
     !.R_URL    = IF Truthy(text) THEN lastIndexAfterReplace(li.R_URL) ELSE li.R_URL,
     !.R_EMAIL  = IF Truthy(text) \/ ("emails" \in entities.keys /\ uniq(entities.emails) # <<>>)
                  THEN lastIndexAfterReplace(li.R_EMAIL) ELSE li.R_EMAIL,
     !.R_PHONE  = IF Truthy(text) THEN lastIndexAfterReplace(li.R_PHONE) ELSE li.R_PHONE,
     !.R_HANDLE = IF Truthy(text) THEN lastIndexAfterReplace(li.R_HANDLE) ELSE li.R_HANDLE]

(* ------------------------------------------------------------------ *)
(* src/tools/phash_image.js                                            *)
(* ------------------------------------------------------------------ *)
\* a value of `image` that is no string (a number, an object)
NotAString == <<"object">>

IsString(v) == v \notin {Undefined, Null, NotAString}

\* a literal of a regex with flag i
LitI(str) == Cat([k \in 1..Len(str) |-> ChrI(str[k])])

\* /^data:image\/(?:png|jpe?g|webp|gif);base64,/i
DATA_URI_RE ==
  Cat(<<Bol, LitI(<<"d", "a", "t", "a", ":", "i", "m", "a", "g", "e", "/">>),
        Alt(<<LitI(<<"p", "n", "g">>),
              Cat(<<LitI(<<"j", "p">>), Opt(ChrI("e")), ChrI("g")>>),
              LitI(<<"w", "e", "b", "p">>), LitI(<<"g", "i", "f">>)>>),
        LitI(<<";", "b", "a", "s", "e", "6", "4", ",">>)>>)

isDataUri(s) == test(DATA_URI_RE, s)

\* src.split(',')[1] || '': what stands between the first and the second comma
BetweenCommas(rest) ==
  SubSeq(rest, 1, IF IndexOf(rest, ",") = 0 THEN Len(rest) ELSE IndexOf(rest, ",") - 1)

base64Part(src) ==
  IF IndexOf(src, ",") = 0 THEN <<>>
  ELSE BetweenCommas(SubSeq(src, IndexOf(src, ",") + 1, Len(src)))

\* new URL(src): the scheme, and for the schemes that need one a host.
\* InvalidURL stands for the TypeError the constructor throws.
InvalidURL == <<"InvalidURL">>

SCHEME_RE ==
  Cat(<<Bol, Cls(Alpha), Star(Cls(Alpha \cup Digit \cup {"+", "-", "."})), Chr(":")>>)

HOST_RE ==
  Cat(<<Bol, Star(Cls({"/", "\\"})), Plus(Cls(Alpha \cup Digit \cup {".", "-"}))>>)

SpecialSchemes ==
  {<<"h", "t", "t", "p", ":">>, <<"h", "t", "t", "p", "s", ":">>, <<"f", "t", "p", ":">>, <<"w", "s", ":">>, <<"w", "s", "s", ":">>}

\* m: the scheme match in t, <<>> when t has no scheme
ProtocolAt(t, m) ==
  IF m = <<>> THEN InvalidURL
  ELSE IF toLowerCase(Slice(t, 0, m[2])) \in SpecialSchemes
          /\ ~test(HOST_RE, SubSeq(t, m[2] + 1, Len(t)))
       THEN InvalidURL
       ELSE toLowerCase(Slice(t, 0, m[2]))

urlProtocol(src) == ProtocolAt(trim(src), Exec(SCHEME_RE, trim(src), 0))

\* /^https?:$/.test(url.protocol)
IsHttp(protocol) == protocol \in {<<"h", "t", "t", "p", ":">>, <<"h", "t", "t", "p", "s", ":">>}

\* mutant: the protocol of a parsed URL is not tested
loadPlan_anyProtocol(src) ==
  IF isDataUri(src) THEN "buffer"
  ELSE IF urlProtocol(src) = InvalidURL THEN "invalid image URL"
  ELSE "fetch"

\* what loadImageBuffer does with a reference before any fetch:
\* "buffer" (a data URI, decoded in place), "fetch", or the error thrown
loadPlan(src) ==
  IF isDataUri(src) THEN "buffer"
  ELSE IF urlProtocol(src) = InvalidURL THEN "invalid image URL"
  ELSE IF ~IsHttp(urlProtocol(src)) THEN "only http/https URLs supported"
  ELSE "fetch"

GridSize == 32
BlockSize == 8
HashBits == 64
HexLen == 16

\* Math.cos(k * Math.PI / 64) for k = 0..32, in units of 1/CosScale.  TLC
\* integers have 32 bits, so the transform is computed in fixed point.
CosScale == 1024
CosQ ==
  <<1024, 1023, 1019, 1013, 1004, 993, 980, 964, 946, 926, 903, 878, 851, 822, 792, 759, 724,
    688, 650, 610, 569, 526, 483, 438, 392, 345, 297, 249, 200, 150, 100, 50, 0>>

\* cos[u][x] = Math.cos(((2 * x + 1) * u * Math.PI) / (2 * N))
QuarterCos(r) ==
  CASE r <= 32 -> CosQ[r + 1]
    [] r > 32 /\ r <= 64 -> 0 - CosQ[64 - r + 1]
    [] r > 64 /\ r <= 96 -> 0 - CosQ[r - 64 + 1]
    [] OTHER -> CosQ[128 - r + 1]

cosAt(u, x) == QuarterCos(((2 * x + 1) * u) % (4 * GridSize))

\* a / d rounded to the nearest integer
RoundDiv(a, d) == (2 * a + d) \div (2 * d)

\* the sum over x = lo..hi of matrix[y][x] * cos[u][x], row being matrix[y]
\* (the range is halved; the terms are whole numbers, so their order does
\* not change the sum)
RECURSIVE RowSum(_, _, _, _)
RowSum(row, u, lo, hi) ==
  IF lo = hi THEN row[lo + 1] * cosAt(u, lo)
  ELSE RowSum(row, u, lo, (lo + hi) \div 2) + RowSum(row, u, (lo + hi) \div 2 + 1, hi)

\* the sum over y = lo..hi of (row sum of y) * cos[v][y]
RECURSIVE ColSum(_, _, _, _, _)
ColSum(rows, u, v, lo, hi) ==
  IF lo = hi THEN rows[lo + 1][u + 1] * cosAt(v, lo)
  ELSE ColSum(rows, u, v, lo, (lo + hi) \div 2) + ColSum(rows, u, v, (lo + hi) \div 2 + 1, hi)

\* c(k) = k === 0 ? Math.SQRT1_2 : 1, in units of 1/256
SqrtHalfQ == 181
NormQ(k) == IF k = 0 THEN SqrtHalfQ ELSE 256

RowSums(matrix) ==
  SubSeq([y \in 1..GridSize |->
            SubSeq([u \in 1..BlockSize |-> RoundDiv(RowSum(matrix[y], u - 1, 0, GridSize - 1), 256)],
                   1, BlockSize)], 1, GridSize)

\* out[v][u] up to the positive factor 2 / N, which changes no comparison
Coeff(rows, u, v) ==
  RoundDiv(RoundDiv(ColSum(rows, u, v, 0, GridSize - 1), 256) * NormQ(u), 256) * NormQ(v)

\* block.flat(): dct[y][x] for y, x < 8, row by row
BlockFlat(rows) ==
  SubSeq([i \in 1..(BlockSize * BlockSize) |->
            Coeff(rows, (i - 1) % BlockSize, (i - 1) \div BlockSize)],
         1, BlockSize * BlockSize)

dct2(matrix) == BlockFlat(RowSums(matrix))

CountBelow(a, v) == Cardinality({k \in 1..Len(a) : a[k] < v})
CountUpTo(a, v) == Cardinality({k \in 1..Len(a) : a[k] <= v})

\* arr.slice().sort((m, n) => m - n)[i], i counted from 0
SortedAt(a, i) ==
  a[CHOOSE k \in 1..Len(a) : CountBelow(a, a[k]) <= i /\ CountUpTo(a, a[k]) > i]

\* mutant: the middle is taken one place lower in the sorted array
medianOf2_lowerMiddle(arr) ==
  IF arr = <<>> THEN 0 ELSE 2 * SortedAt(arr, Len(arr) \div 2 - 1)

\* twice medianOf(arr): the mean of the two middle values need not be whole
medianOf2(arr) ==
  IF arr = <<>> THEN 0
  ELSE IF Len(arr) % 2 = 1 THEN 2 * SortedAt(arr, Len(arr) \div 2)
  ELSE SortedAt(arr, Len(arr) \div 2 - 1) + SortedAt(arr, Len(arr) \div 2)

\* mutant: a coefficient equal to the median yields 1
BitsAgainst_notLess(coeffs, median2) ==
  [i \in 1..Len(coeffs) |-> IF 2 * coeffs[i] >= median2 THEN "1" ELSE "0"]

\* bits += (v > median ? '1' : '0'), for every coefficient, the first included
BitsAgainst(coeffs, median2) ==
  [i \in 1..Len(coeffs) |-> IF 2 * coeffs[i] > median2 THEN "1" ELSE "0"]

\* values = coeffs.slice(1); median = medianOf(values)
bitsOf(coeffs) == BitsAgainst(coeffs, medianOf2(Tail(coeffs)))

padEnd(s, n, c) == s \o [k \in 1..(n - Len(s)) |-> c]
padStart(s, n, c) == [k \in 1..(n - Len(s)) |-> c] \o s

\* parseInt(s, 2) of a string of binary digits
RECURSIVE parseInt2(_)
parseInt2(s) ==
  IF s = <<>> THEN 0
  ELSE 2 * parseInt2(SubSeq(s, 1, Len(s) - 1)) + (IF s[Len(s)] = "1" THEN 1 ELSE 0)

HexDigits ==
  <<"0", "1", "2", "3", "4", "5", "6", "7", "8", "9", "a", "b", "c", "d", "e", "f">>

\* mutant: the digits are written in upper case
toHex_upper(nibble) ==
  <<(<<"0", "1", "2", "3", "4", "5", "6", "7", "8", "9", "A", "B", "C", "D", "E", "F">>)[nibble + 1]>>

\* nibble.toString(16) for a nibble
toHex(nibble) == <<HexDigits[nibble + 1]>>

\* for (let i = 0; i < padded.length; i += 4) hex += nibble.toString(16)
Nibbles(padded) ==
  SubSeq([k \in 1..((Len(padded) + 3) \div 4) |->
            toHex(parseInt2(SubSeq(padded, 4 * k - 3, IF 4 * k < Len(padded) THEN 4 * k ELSE Len(padded))))[1]],
         1, (Len(padded) + 3) \div 4)

binToHex(bits) ==
  padStart(Take(Nibbles(padEnd(bits, ((Len(bits) + 3) \div 4) * 4, "0")), HexLen),
           HexLen, "0")

ALGO == "phash-dct-8x8"

\* phashImage from the decoded pixels on
hashOfPixels(pixels) ==
  [hash |-> binToHex(bitsOf(dct2(pixels))), algo |-> ALGO, size |-> HashBits]

\* Buffer.from(b64, 'base64'): the characters of the base64 alphabets up to
\* the first '=', six bits each
B64Alphabet ==
  <<"A", "B", "C", "D", "E", "F", "G", "H", "I", "J", "K", "L", "M", "N", "O", "P",
    "Q", "R", "S", "T", "U", "V", "W", "X", "Y", "Z", "a", "b", "c", "d", "e", "f",
    "g", "h", "i", "j", "k", "l", "m", "n", "o", "p", "q", "r", "s", "t", "u", "v",
    "w", "x", "y", "z", "0", "1", "2", "3", "4", "5", "6", "7", "8", "9", "+", "/">>

IsB64(c) == c \in {"-", "_"} \/ IndexOf(B64Alphabet, c) > 0

B64Value(c) ==
  IF c = "-" THEN 62 ELSE IF c = "_" THEN 63 ELSE IndexOf(B64Alphabet, c) - 1

\* the characters that are decoded
B64Chars(b64) ==
  SelectSeq(SubSeq(b64, 1, IF IndexOf(b64, "=") = 0 THEN Len(b64) ELSE IndexOf(b64, "=") - 1),
            IsB64)

RECURSIVE B64Bytes(_)
B64Bytes(vs) ==
  IF Len(vs) < 2 THEN <<>>
  ELSE IF Len(vs) = 2 THEN <<vs[1] * 4 + vs[2] \div 16>>
  ELSE IF Len(vs) = 3 THEN <<vs[1] * 4 + vs[2] \div 16, (vs[2] % 16) * 16 + vs[3] \div 4>>
  ELSE <<vs[1] * 4 + vs[2] \div 16, (vs[2] % 16) * 16 + vs[3] \div 4, (vs[3] % 4) * 64 + vs[4]>>
       \o B64Bytes(SubSeq(vs, 5, Len(vs)))

bufferFromBase64(b64) == B64Bytes([k \in 1..Len(B64Chars(b64)) |-> B64Value(B64Chars(b64)[k])])

(* sharp is outside the repository.  The files it decodes are stood for  *)
(* by three bytes: a signature, the number of a picture, and a          *)
(* brightness that is added to every pixel of the picture (clamped to   *)
(* the range of a byte, as the raw Uint8 buffer holds bytes).  It       *)
(* throws on every other buffer.                                        *)
Signature == 137

Levels == <<0, 60, 130, 200>>

\* the picture number s at 32x32: four grey levels in a fixed irregular pattern
Texture(s, x, y) == ((((17 * x + 29 * y + s) * (x + 3 * y + s + 5)) + x * y * s) % 251) % 4

\* two more pictures: one all black, and one black but for three pixels in
\* the top-left corner
BlackPicture == 254
CornerPicture == 255

Corner(x, y) ==
  CASE x = 1 /\ y = 1 -> 255
    [] x = 2 /\ y = 1 -> 130
    [] x = 1 /\ y = 3 -> 60
    [] OTHER -> 0

Picture(s) ==
  [y \in 1..GridSize |->
     [x \in 1..GridSize |->
        CASE s = BlackPicture -> 0
          [] s = CornerPicture -> Corner(x, y)
          [] OTHER -> Levels[Texture(s, x, y) + 1]]]

clamp255(v) == IF v < 0 THEN 0 ELSE IF v > 255 THEN 255 ELSE v

\* every pixel increased by the constant c, clamped to 0..255
clampAdd(matrix, c) ==
  [y \in 1..GridSize |-> [x \in 1..GridSize |-> clamp255(matrix[y][x] + c)]]

Decodable(buf) == Len(buf) = 3 /\ buf[1] = Signature /\ buf[2] > 0

\* toGrayscaleMatrix(buf, 32, 32) of a buffer that sharp decodes
toGrayscaleMatrix(buf) == clampAdd(Picture(buf[2]), buf[3])

(* ------------------------------------------------------------------ *)
(* The tools as the triage agent calls them (sentinel.agent.mjs):      *)
(* extract_entities on the tip text, redact on the tip text with an    *)
(* entity set (a supplied one, or the one extract_entities returned),  *)
(* and redact once more on the text that redact returned; phash_image   *)
(* on the tip's image reference, which is suspended while the image is *)
(* fetched and while sharp decodes it.  lastIndex holds the lastIndex  *)
(* of every module-level g-flag regex, and fetchRun is the run of      *)
(* fetchUrl (tool fetch_url), which is suspended at every await.       *)
(* ------------------------------------------------------------------ *)
VARIABLES tip, image, call, extracted, redacted, hashing, lastIndex, fetchRun

vars == <<tip, image, call, extracted, redacted, hashing, lastIndex, fetchRun>>

\* texts are built from at most MaxFrags pieces of a pool
MaxFrags == 2
MaxExtractFrags == 3

RECURSIVE Flatten(_)
Flatten(ss) == IF ss = <<>> THEN <<>> ELSE ss[1] \o Flatten(Tail(ss))

TextsOf(pool, n) == {Flatten(fs) : fs \in UNION {[1..k -> pool] : k \in 0..n}}

RedactPool ==
  {<<"J">>, <<"J","o"," ","D","o">>, <<"-">>, <<" ">>, <<"x">>, <<".","c","c">>,
   <<"@","1","2","3","4","5","6","7",".","c","c">>, <<"1","2","3","4","5","6","7">>,
   <<"a","b","c","@","x",".","y">>, <<"h","t","t","p",":","/","/","x">>}

ExtractPool ==
  {<<"a","@","b",".","c","c">>, <<"A","@","b",".","c","c">>, <<"@","a","b","c">>,
   <<"@">>, <<"a","b">>, <<"+","1","2","3","1","2","3","4","5","6","7">>,
   <<"1","2","3","4","5","6","7">>, <<" ">>, <<"J","o"," ","D","o">>, <<"\n">>}

Modes == {"normal", "strict"}

Entities(ks, e, p, h, n) ==
  [keys |-> ks, emails |-> e, phones |-> p, handles |-> h, names |-> n]

NoEntities == Entities({}, <<>>, <<>>, <<>>, <<>>)

\* the entity set of an extraction result
EntitiesOf(x) == Entities(x.keys, x.emails, x.phones, x.handles, x.names)

SuppliedEntities ==
  {NoEntities,
   Entities(Keys, <<<<"a","b","c","@","x",".","y">>>>,
            <<<<"1","2","3","4","5","6","7">>, <<"x">>, <<"5">>, <<>>, <<"x">>>>,
            <<<<"@","1","2","3","4","5","6","7",".","c","c">>, <<"x"," ","x">>,
              <<" ","@","a","b","c"," ">>>>,
            <<<<"J">>>>),
   Entities({"names"}, <<>>, <<>>, <<>>,
            <<<<"(">>, <<"*">>, <<>>, <<"x",".","c","c">>, <<"J","o"," ","D","o">>>>)}

NoCall == [tool |-> "none", text |-> <<>>, entities |-> NoEntities, mode |-> "strict", again |-> FALSE]
NoExtraction == [thrown |-> "none", keys |-> {}, emails |-> <<>>, phones |-> <<>>,
                 handles |-> <<>>, names |-> <<>>]
NoRedaction == [thrown |-> "none", safe_text |-> <<>>, safe_entities |-> NoEntities]

NoHash == [hash |-> <<>>, algo |-> "none", size |-> 0]

\* no phashImage call so far
NoHashing ==
  [pc |-> "idle", image |-> Undefined, buf |-> <<>>, fetches |-> 0, decodes |-> 0,
   error |-> "none", result |-> NoHash]

\* the result object of fetchUrl: shots are the labels of the screenshots
NoFetchResult == [status |-> 0, html |-> FALSE, text |-> FALSE, shots |-> <<>>, warnings |-> <<>>]

\* no fetchUrl call so far.  browser and page are the variables of the call:
\* "null", or the state of the object they hold; launches counts the calls
\* of puppeteer.launch, closes holds the objects on which close() was
\* called, and closeFailed those whose close() rejected
NoFetchRun ==
  [pc |-> "idle", url |-> <<>>, screenshot |-> TRUE, maxScreenshots |-> 2,
   browser |-> "null", page |-> "null", launches |-> 0, closes |-> {},
   closeFailed |-> {}, thrown |-> "none", result |-> NoFetchResult]

InitWith(texts, images) ==
  /\ tip \in texts
  /\ image \in images
  /\ call = NoCall
  /\ extracted = NoExtraction
  /\ redacted = NoRedaction
  /\ hashing = NoHashing
  /\ lastIndex = ZeroIndex
  /\ fetchRun = NoFetchRun

\* texts with handles: at the start, after a blank, after a line break and
\* before a dot, with '_', '-' and '.', too short, inside a word, and two
HandleTexts ==
  {<<"@", "a", "b", "c">>,
   <<" ", "@", "a", "b", "c">>,
   <<"x", "\n", "@", "a", "b", "c", ".">>,
   <<"@", "a", "_", "b", "-", "c", ".", "d", " ", "x">>,
   <<"@", "a", "b">>,
   <<"x", "@", "a", "b", "c">>,
   <<"\t", "@", "a", "b", "c", " ", "@", "J", "o">>}

Init == InitWith(TextsOf(RedactPool, MaxFrags) \cup {Undefined, Null} \cup HandleTexts, {Undefined})

\* tool extract_entities: extractEntities({ text })
CallExtract ==
  /\ call.tool = "none"
  /\ call' = [NoCall EXCEPT !.tool = "extract_entities", !.text = tip]
  /\ extracted' = extractEntitiesAt(tip, lastIndex)
  /\ lastIndex' = lastIndexAfterExtract(tip, lastIndex)
  /\ UNCHANGED <<tip, image, redacted, hashing, fetchRun>>

\* tool redact: redactContent({ text, entities, mode }) with a supplied entity set
CallRedact ==
  /\ call.tool = "none"
  /\ \E e \in SuppliedEntities, m \in Modes :
       /\ call' = [NoCall EXCEPT !.tool = "redact", !.text = tip, !.entities = e, !.mode = m]
       /\ redacted' = redactContent(tip, e, m)
       /\ lastIndex' = lastIndexAfterRedact(tip, e, lastIndex)
  /\ UNCHANGED <<tip, image, extracted, hashing, fetchRun>>

\* tool redact on the entity set that extract_entities returned
CallRedactExtracted ==
  /\ call.tool = "extract_entities"
  /\ extracted.thrown = "none"
  /\ \E m \in Modes :
       /\ call' = [NoCall EXCEPT !.tool = "redact", !.text = tip,
                                 !.entities = EntitiesOf(extracted), !.mode = m]
       /\ redacted' = redactContent(tip, EntitiesOf(extracted), m)
  /\ lastIndex' = lastIndexAfterRedact(tip, EntitiesOf(extracted), lastIndex)
  /\ UNCHANGED <<tip, image, extracted, hashing, fetchRun>>

\* tool redact once more, on the text the last redact returned
CallRedactAgain ==
  /\ call.tool = "redact"
  /\ ~call.again
  /\ redacted.thrown = "none"
  /\ call' = [call EXCEPT !.text = redacted.safe_text, !.again = TRUE]
  /\ redacted' = redactContent(redacted.safe_text, call.entities, call.mode)
  /\ lastIndex' = lastIndexAfterRedact(redacted.safe_text, call.entities, lastIndex)
  /\ UNCHANGED <<tip, image, extracted, hashing, fetchRun>>

Next == CallExtract \/ CallRedact \/ CallRedactExtracted \/ CallRedactAgain

Spec == Init /\ [][Next]_vars

Repeat(c, n) == [k \in 1..n |-> c]

\* the phone example of the tool's description
CallExample ==
  <<"C","a","l","l"," ","+","1"," ","2","1","2","-","5","5","5","-","1","2","3","4"," ","n","o","w">>

\* user names at the length limit of HANDLE_RE: 30 characters, 31 characters,
\* and 30 characters cut before a letter so that the match ends in dots
LongHandleTexts ==
  {<<"@">> \o Repeat("a", 30),
   <<"@">> \o Repeat("a", 31),
   <<"@">> \o Repeat("a", 29) \o <<".", "a">>,
   <<"@", "a", "b">> \o Repeat(".", 28) \o <<"a">>,
   <<"@">> \o Repeat(".", 30) \o <<"a">>}

\* texts for the name heuristics: stop words, a single capitalized token, one
\* token per line, a token that ends in a dot, hyphen and apostrophe, a run of
\* five, tokens apart by a comma, a lower-case and a one-letter token
NameTexts ==
  {<<"T", "h", "e", " ", "J", "o", " ", "D", "o", " ", "R", "e">>,
   <<"J", "o", " ", "D", "o", " ", "T", "h", "e", " ", "R", "e">>,
   <<"J", "o">>,
   <<"J", "o", "\n", "D", "o", "\n", "R", "e">>,
   <<"D", "r", ".", " ", "J", "o", " ", "D", "o">>,
   <<"J", "o", "-", "D", "o", " ", "O", "'", "R", "e", " ", "M", "i">>,
   <<"J", "o", " ", "D", "o", " ", "R", "e", " ", "M", "i", " ", "F", "a">>,
   <<"J", "o", ",", " ", "D", "o">>,
   <<"j", "o", " ", "D", "o", " ", "R", "e">>,
   <<"J", " ", "D", "o", " ", "R", "e">>}

\* texts at the limits of the name heuristics: a name on line 501 only, names
\* on lines 500 and 501, one line of 24 distinct name tokens, 11 lines of
\* three name tokens each, ten equal lines and another one, and lines with a
\* link or a handle next to lines without
LimitTexts ==
  {Repeat("\n", MaxLines) \o <<"J", "o", " ", "D", "o">>,
   Repeat("\n", MaxLines - 1) \o <<"J", "o", " ", "D", "o", "\n", "R", "e", " ", "M", "i">>,
   Flatten([k \in 1..24 |-> <<"A", LowerSeq[k], " ">>]),
   Flatten([k \in 1..11 |-> <<"A", LowerSeq[k], " ", "B", LowerSeq[k], " ", "C", LowerSeq[k], "\n">>]),
   Flatten([k \in 1..10 |-> <<"J", "o", " ", "D", "o", " ", "R", "e", "\n">>]) \o <<"M", "i", " ", "F", "a">>,
   <<"J", "o", " ", "D", "o", " ", "H", "T", "T", "P", "S", ":", "/", "/", "x", "\n", "R", "e", " ", "M", "i">>,
   <<"R", "e", " ", "M", "i", "\n", "J", "o", " ", "D", "o", " ", "h", "t", "t", "p", ":", "/", "/", "x">>,
   <<"R", "e", " ", "M", "i", " ", "@", "a", "b", "\n", "J", "o", " ", "D", "o">>,
   <<"R", "e", " ", "M", "i", " ", "@", " ", "h", "t", "t", "p", "\n", "J", "o", " ", "D", "o">>}

\* the extraction tool alone, on texts of the extraction pool
InitExtract ==
  InitWith(TextsOf(ExtractPool, MaxExtractFrags) \cup {Undefined, Null, CallExample}
             \cup LongHandleTexts \cup NameTexts \cup LimitTexts,
           {Undefined})

NextExtract == CallExtract

SpecExtract == InitExtract /\ [][NextExtract]_vars

(* ------------------------------------------------------------------ *)
(* phash_image                                                         *)
(* ------------------------------------------------------------------ *)

\* data URIs of the supported kinds: pictures 1 and 6 at four brightnesses,
\* then an empty payload, bytes that are no image, a cut file, a payload
\* followed by a second comma, the black picture and the one with a lit corner
DataUris ==
  {<<"d", "a", "t", "a", ":", "i", "m", "a", "g", "e", "/", "p", "n", "g", ";", "b", "a", "s", "e", "6", "4", ",", "i", "Q", "E", "A">>,
   <<"d", "a", "t", "a", ":", "i", "m", "a", "g", "e", "/", "p", "n", "g", ";", "b", "a", "s", "e", "6", "4", ",", "i", "Q", "E", "K">>,
   <<"d", "a", "t", "a", ":", "i", "m", "a", "g", "e", "/", "p", "n", "g", ";", "b", "a", "s", "e", "6", "4", ",", "i", "Q", "F", "k">>,
   <<"d", "a", "t", "a", ":", "i", "m", "a", "g", "e", "/", "p", "n", "g", ";", "b", "a", "s", "e", "6", "4", ",", "i", "Q", "H", "I">>,
   <<"d", "a", "t", "a", ":", "i", "m", "a", "g", "e", "/", "j", "p", "g", ";", "b", "a", "s", "e", "6", "4", ",", "i", "Q", "Y", "A">>,
   <<"D", "A", "T", "A", ":", "I", "M", "A", "G", "E", "/", "J", "P", "E", "G", ";", "B", "A", "S", "E", "6", "4", ",", "i", "Q", "Y", "K">>,
   <<"d", "a", "t", "a", ":", "i", "m", "a", "g", "e", "/", "w", "e", "b", "p", ";", "b", "a", "s", "e", "6", "4", ",", "i", "Q", "Z", "k">>,
   <<"d", "a", "t", "a", ":", "i", "m", "a", "g", "e", "/", "g", "i", "f", ";", "b", "a", "s", "e", "6", "4", ",", "i", "Q", "b", "I">>,
   <<"d", "a", "t", "a", ":", "i", "m", "a", "g", "e", "/", "p", "n", "g", ";", "b", "a", "s", "e", "6", "4", ",">>,
   <<"d", "a", "t", "a", ":", "i", "m", "a", "g", "e", "/", "p", "n", "g", ";", "b", "a", "s", "e", "6", "4", ",", "A", "Q", "I", "D">>,
   <<"d", "a", "t", "a", ":", "i", "m", "a", "g", "e", "/", "p", "n", "g", ";", "b", "a", "s", "e", "6", "4", ",", "i", "Q", "E", "=">>,
   <<"d", "a", "t", "a", ":", "i", "m", "a", "g", "e", "/", "p", "n", "g", ";", "b", "a", "s", "e", "6", "4", ",", "i", "Q", "E", "A", ",", "i", "Q", "H", "I">>,
   <<"d", "a", "t", "a", ":", "i", "m", "a", "g", "e", "/", "p", "n", "g", ";", "b", "a", "s", "e", "6", "4", ",", "i", "f", "4", "A">>,
   <<"d", "a", "t", "a", ":", "i", "m", "a", "g", "e", "/", "p", "n", "g", ";", "b", "a", "s", "e", "6", "4", ",", "i", "f", "8", "A">>}

\* references that are neither a supported data URI nor an http(s) URL
OtherRefs ==
  {<<"d", "a", "t", "a", ":", "i", "m", "a", "g", "e", "/", "b", "m", "p", ";", "b", "a", "s", "e", "6", "4", ",", "i", "Q", "E", "A">>,
   <<"d", "a", "t", "a", ":", "t", "e", "x", "t", "/", "p", "l", "a", "i", "n", ";", "b", "a", "s", "e", "6", "4", ",", "i", "Q", "E", "A">>,
   <<"d", "a", "t", "a", ":", "i", "m", "a", "g", "e", "/", "p", "n", "g", ",", "i", "Q", "E", "A">>,
   <<" ", "d", "a", "t", "a", ":", "i", "m", "a", "g", "e", "/", "p", "n", "g", ";", "b", "a", "s", "e", "6", "4", ",", "i", "Q", "E", "A">>,
   <<"f", "t", "p", ":", "/", "/", "h", "/", "a", ".", "p", "n", "g">>,
   <<"f", "i", "l", "e", ":", "/", "/", "/", "a", ".", "p", "n", "g">>,
   <<"a", ".", "p", "n", "g">>,
   <<"h", "t", "t", "p", ":", "/", "/">>,
   <<"/", "/", "h", "/", "a", ".", "p", "n", "g">>,
   <<"/", "a", ".", "p", "n", "g">>}

\* http(s) URLs as new URL() accepts them
HttpUrls ==
  {<<"h", "t", "t", "p", ":", "/", "/", "h", "/", "a", ".", "p", "n", "g">>,
   <<"h", "t", "t", "p", "s", ":", "/", "/", "h", "/", "a", ".", "p", "n", "g">>,
   <<"H", "T", "T", "P", "S", ":", "/", "/", "h", "/", "a">>,
   <<" ", "h", "t", "t", "p", ":", "/", "/", "h", "/", "a", " ">>,
   <<"h", "t", "t", "p", ":", "h">>}

\* values of `image` that fail the input check
BadInputs == {Undefined, Null, <<>>, NotAString}

ImagePool == BadInputs \cup DataUris \cup OtherRefs \cup HttpUrls

\* what a server may answer with status 200: a picture, a darker and a lighter
\* one, bytes that are no image, nothing
Bodies == {<<Signature, 1, 0>>, <<Signature, 6, 100>>, <<Signature, 6, 200>>, <<1, 2, 3>>, <<>>}

\* the errors thrown for a response that is not ok
FetchErrors == {"failed to fetch (404)", "failed to fetch (500)"}

Failed(h, msg) == [h EXCEPT !.pc = "failed", !.error = msg]

\* phashImage({ image }) up to its first suspension: the input check, and
\* loadImageBuffer up to the fetch
StartHash(img) ==
  IF ~Truthy(img) \/ ~IsString(img)
  THEN Failed([NoHashing EXCEPT !.image = img], "image must be a string")
  ELSE IF loadPlan(img) = "buffer"
  THEN [NoHashing EXCEPT !.image = img, !.pc = "decoding",
                         !.buf = bufferFromBase64(base64Part(img))]
  ELSE IF loadPlan(img) = "fetch"
  THEN [NoHashing EXCEPT !.image = img, !.pc = "fetching", !.fetches = 1]
  ELSE Failed([NoHashing EXCEPT !.image = img], loadPlan(img))

\* tool phash_image: phashImage({ image }) is called on the tip's image
PhashCall ==
  /\ hashing.pc \in {"idle", "done", "failed"}
  /\ hashing' = StartHash(image)
  /\ UNCHANGED <<tip, image, call, extracted, redacted, lastIndex, fetchRun>>

\* `await fetch(url)` settles: a response that is ok, one that is not, or a
\* rejection (no connection)
FetchSettles ==
  /\ hashing.pc = "fetching"
  /\ \/ \E body \in Bodies : hashing' = [hashing EXCEPT !.pc = "decoding", !.buf = body]
     \/ \E msg \in FetchErrors : hashing' = Failed(hashing, msg)
     \/ hashing' = Failed(hashing, "fetch rejected")
  /\ UNCHANGED <<tip, image, call, extracted, redacted, lastIndex, fetchRun>>

\* `await toGrayscaleMatrix(buf, 32, 32)` settles: sharp throws, or the hash is
\* computed from the pixels and returned
DecodeSettles ==
  /\ hashing.pc = "decoding"
  /\ hashing' =
       IF Decodable(hashing.buf)
       THEN [hashing EXCEPT !.pc = "done", !.decodes = @ + 1,
                            !.result = hashOfPixels(toGrayscaleMatrix(hashing.buf))]
       ELSE Failed([hashing EXCEPT !.decodes = @ + 1], "sharp rejected")
  /\ UNCHANGED <<tip, image, call, extracted, redacted, lastIndex, fetchRun>>

NextHash == PhashCall \/ FetchSettles \/ DecodeSettles

InitHash == InitWith({<<>>}, ImagePool)

SpecHash == InitHash /\ [][NextHash]_vars

(* ------------------------------------------------------------------ *)
(* The three engines in one process: tips follow one another, the text *)
(* tools run to completion when called (they hold no await), and a     *)
(* phash_image call is suspended at its two awaits while they run.     *)
(* ------------------------------------------------------------------ *)
EngineTexts ==
  {<<"J", "o", " ", "D", "o", " ", "1", "2", "3", "4", "5", "6", "7">>,
   <<"a", "@", "b", ".", "c", "c", " ", "@", "a", "b", "c">>,
   <<"+", "1", "2", "3", "1", "2", "3", "4", "5", "6", "7", " ", "@", "a", "b", "c">>}

EngineImages ==
  {<<"d", "a", "t", "a", ":", "i", "m", "a", "g", "e", "/", "p", "n", "g", ";", "b", "a", "s", "e", "6", "4", ",", "i", "Q", "E", "A">>,
   <<"h", "t", "t", "p", ":", "/", "/", "h", "/", "a", ".", "p", "n", "g">>}

\* the agent turns to the next tip; the results of the calls on the last one
\* have been returned
NextTip ==
  /\ tip' \in EngineTexts
  /\ image' \in EngineImages
  /\ call' = NoCall
  /\ extracted' = NoExtraction
  /\ redacted' = NoRedaction
  /\ UNCHANGED <<hashing, lastIndex, fetchRun>>

InitEngines == InitWith(EngineTexts, EngineImages)

NextEngines == Next \/ NextHash \/ NextTip

SpecEngines == InitEngines /\ [][NextEngines]_vars

(* ------------------------------------------------------------------ *)
(* src/tools/fetch_url.js                                              *)
(* Puppeteer is outside the repository.  Each call of it that fetchUrl *)
(* awaits is a step at which the run is suspended (pc is the call that *)
(* is awaited), and the call resolves or rejects.  close() that        *)
(* rejects may or may not have closed its object.                      *)
(* ------------------------------------------------------------------ *)

\* validateUrl(u): "ok", or the error it throws
validateUrl(u) ==
  IF urlProtocol(u) = InvalidURL THEN "Invalid URL"
  ELSE IF ~IsHttp(urlProtocol(u)) THEN "Unsupported protocol"
  ELSE "ok"

\* the values of url, screenshot and maxScreenshots that are tried
FetchUrls ==
  HttpUrls \cup
  {<<>>,
   <<"h", "/", "a">>,
   <<"h", "t", "t", "p", ":", "/", "/">>,
   <<"f", "t", "p", ":", "/", "/", "h", "/", "a">>,
   <<"f", "i", "l", "e", ":", "/", "/", "/", "a">>,
   <<"j", "a", "v", "a", "s", "c", "r", "i", "p", "t", ":", "a">>}

ScreenshotCounts == {1, 2}

\* resp of page.goto: null, or a response with its status
Responses == {"null", "200", "404"}

NO_RESPONSE == <<"No HTTP response (possible redirect to non-HTTP).">>

\* the calls awaited inside the try block
TrySteps ==
  {"puppeteer.launch", "browser.newPage", "page.setUserAgent", "page.setRequestInterception",
   "page.goto", "page.waitForTimeout(500)", "page.content", "page.evaluate",
   "page.screenshot(fullPage)", "page.setViewport", "page.waitForTimeout(150)",
   "page.screenshot(mobile)"}

\* the awaited calls whose value is not used, with the call awaited next
Following ==
  [step \in {"page.setUserAgent", "page.setRequestInterception", "page.waitForTimeout(500)",
             "page.setViewport", "page.waitForTimeout(150)"} |->
     CASE step = "page.setUserAgent" -> "page.setRequestInterception"
       [] step = "page.setRequestInterception" -> "page.goto"
       [] step = "page.waitForTimeout(500)" -> "page.content"
       [] step = "page.setViewport" -> "page.waitForTimeout(150)"
       [] step = "page.waitForTimeout(150)" -> "page.screenshot(mobile)"]

\* warnings.push(w)
Warn(f, w) == [f EXCEPT !.result.warnings = Append(@, w)]

\* return { finalUrl, status, headers, html, text, screenshots, warnings }
Return(f) == [f EXCEPT !.pc = "returned"]

\* try { if (browser) await browser.close(); } catch {}
AfterPageClose(f) ==
  IF f.browser # "null"
  THEN [f EXCEPT !.pc = "browser.close", !.closes = @ \cup {"browser"}]
  ELSE Return(f)

\* the finally block: try { if (page) await page.close(); } catch {}
Finally(f) ==
  IF f.page # "null"
  THEN [f EXCEPT !.pc = "page.close", !.closes = @ \cup {"page"}]
  ELSE AfterPageClose(f)

\* mutant: the catch block records nothing
Caught_silent(f) == Finally(f)

\* catch (err) { warnings.push("Fetch error: ..") }, f.pc being the call
\* that rejected; then the finally block
Caught(f) == Finally(Warn(f, <<"Fetch error", f.pc>>))

\* fetchUrl({ url, screenshot, maxScreenshots }) up to its first await
StartFetch(u, sc, mx) ==
  IF validateUrl(u) # "ok"
  THEN [NoFetchRun EXCEPT !.pc = "thrown", !.url = u, !.screenshot = sc,
                          !.maxScreenshots = mx, !.thrown = validateUrl(u)]
  ELSE [NoFetchRun EXCEPT !.pc = "puppeteer.launch", !.url = u, !.screenshot = sc,
                          !.maxScreenshots = mx, !.launches = 1]

OtherVars == <<tip, image, call, extracted, redacted, hashing, lastIndex>>

\* tool fetch_url: fetchUrl is called
FetchCall ==
  /\ fetchRun.pc \in {"idle", "returned", "thrown"}
  /\ \E u \in FetchUrls, sc \in BOOLEAN, mx \in ScreenshotCounts :
       fetchRun' = StartFetch(u, sc, mx)
  /\ UNCHANGED OtherVars

\* a call awaited in the try block rejects
AwaitRejects ==
  /\ fetchRun.pc \in TrySteps
  /\ fetchRun' = Caught(fetchRun)
  /\ UNCHANGED OtherVars

\* browser = await puppeteer.launch(..)
LaunchResolves ==
  /\ fetchRun.pc = "puppeteer.launch"
  /\ fetchRun' = [fetchRun EXCEPT !.browser = "open", !.pc = "browser.newPage"]
  /\ UNCHANGED OtherVars

\* page = await browser.newPage()
NewPageResolves ==
  /\ fetchRun.pc = "browser.newPage"
  /\ fetchRun' = [fetchRun EXCEPT !.page = "open", !.pc = "page.setUserAgent"]
  /\ UNCHANGED OtherVars

\* setUserAgent, setRequestInterception, waitForTimeout or setViewport
\* resolves
PlainResolves ==
  /\ fetchRun.pc \in DOMAIN Following
  /\ fetchRun' = [fetchRun EXCEPT !.pc = Following[fetchRun.pc]]
  /\ UNCHANGED OtherVars

\* const resp = await page.goto(..); if (resp) { .. } else { warnings.push(..) }
AfterGoto(f, resp) ==
  IF resp = "null"
  THEN [Warn(f, NO_RESPONSE) EXCEPT !.pc = "page.waitForTimeout(500)"]
  ELSE [f EXCEPT !.result.status = IF resp = "200" THEN 200 ELSE 404,
                 !.pc = "page.waitForTimeout(500)"]

GotoResolves ==
  /\ fetchRun.pc = "page.goto"
  /\ \E resp \in Responses : fetchRun' = AfterGoto(fetchRun, resp)
  /\ UNCHANGED OtherVars

\* html = await page.content()
ContentResolves ==
  /\ fetchRun.pc = "page.content"
  /\ fetchRun' = [fetchRun EXCEPT !.result.html = TRUE, !.pc = "page.evaluate"]
  /\ UNCHANGED OtherVars

\* text = await page.evaluate(..); if (screenshot) { .. }
AfterEvaluate(f) ==
  IF f.screenshot
  THEN [f EXCEPT !.result.text = TRUE, !.pc = "page.screenshot(fullPage)"]
  ELSE Finally([f EXCEPT !.result.text = TRUE])

EvaluateResolves ==
  /\ fetchRun.pc = "page.evaluate"
  /\ fetchRun' = AfterEvaluate(fetchRun)
  /\ UNCHANGED OtherVars

\* shot1 = await page.screenshot(..); screenshots.push(..);
\* if (maxScreenshots > 1) { .. }
AfterShot1(f) ==
  IF f.maxScreenshots > 1
  THEN [f EXCEPT !.result.shots = Append(@, "fullpage"), !.pc = "page.setViewport"]
  ELSE Finally([f EXCEPT !.result.shots = Append(@, "fullpage")])

Shot1Resolves ==
  /\ fetchRun.pc = "page.screenshot(fullPage)"
  /\ fetchRun' = AfterShot1(fetchRun)
  /\ UNCHANGED OtherVars

\* shot2 = await page.screenshot(..); screenshots.push(..)
Shot2Resolves ==
  /\ fetchRun.pc = "page.screenshot(mobile)"
  /\ fetchRun' = Finally([fetchRun EXCEPT !.result.shots = Append(@, "mobile")])
  /\ UNCHANGED OtherVars

\* await page.close() settles; a rejection is caught by catch {}
PageCloseSettles ==
  /\ fetchRun.pc = "page.close"
  /\ \/ fetchRun' = AfterPageClose([fetchRun EXCEPT !.page = "closed"])
     \/ \E left \in {"open", "closed"} :
          fetchRun' = AfterPageClose([fetchRun EXCEPT !.page = left,
                                                       !.closeFailed = @ \cup {"page"}])
  /\ UNCHANGED OtherVars

\* the object that page holds when the browser is in state b
PageIn(f, b) == IF b = "closed" /\ f.page = "open" THEN "closed" ELSE f.page

\* await browser.close() settles; a rejection is caught by catch {}.  A
\* browser that is closed has no open page.
BrowserCloseSettles ==
  /\ fetchRun.pc = "browser.close"
  /\ \/ fetchRun' = Return([fetchRun EXCEPT !.browser = "closed",
                                            !.page = PageIn(fetchRun, "closed")])
     \/ \E left \in {"open", "closed"} :
          fetchRun' = Return([fetchRun EXCEPT !.browser = left,
                                              !.page = PageIn(fetchRun, left),
                                              !.closeFailed = @ \cup {"browser"}])
  /\ UNCHANGED OtherVars

\* an awaited call settles
SettleFetch ==
  \/ AwaitRejects \/ LaunchResolves \/ NewPageResolves \/ PlainResolves \/ GotoResolves
  \/ ContentResolves \/ EvaluateResolves \/ Shot1Resolves \/ Shot2Resolves
  \/ PageCloseSettles \/ BrowserCloseSettles

NextFetch == FetchCall \/ SettleFetch

InitFetch == InitWith({<<>>}, {Undefined})

\* every call that fetchUrl awaits settles: Puppeteer ends launch and goto
\* by a timeout (goto is given timeout: timeoutMs), and the other calls
\* by the answer or the loss of the connection to the browser
SpecFetch == InitFetch /\ [][NextFetch]_vars /\ WF_vars(SettleFetch)

TypeOK ==
  /\ call.tool \in {"none", "extract_entities", "redact"}
  /\ call.mode \in Modes
  /\ extracted.thrown \in {"none", "TypeError"}
  /\ redacted.thrown \in {"none", "SyntaxError", "Unmodelled"}
  /\ hashing.pc \in {"idle", "fetching", "decoding", "done", "failed"}
  /\ hashing.fetches \in 0..1
  /\ hashing.decodes \in 0..1
  /\ lastIndex \in [GlobalRegexes -> Nat]

(* ------------------------------------------------------------------ *)
(* Claims                                                              *)
(* ------------------------------------------------------------------ *)
Redacted == call.tool = "redact" /\ redacted.thrown = "none"

\* redact was called on the tip text with the entity set extracted from it
RedactedExtracted ==
  /\ Redacted
  /\ ~call.again
  /\ extracted.keys = Keys
  /\ call.entities = EntitiesOf(extracted)

\* C1: redacting the text that redaction returned, with the same entity set and
\* mode, returns that text unchanged
C1_RedactionIdempotent == (Redacted /\ call.again) => redacted.safe_text = call.text

LocalPart(e) == SubSeq(e, 1, IndexOf(e, "@") - 1)

\* the text spans that yielded a reported phone
PhoneSpans(text) == SelectSeq(MatchStrings(PHONE_RE, text), LAMBDA m : Truthy(plausiblyPhone(m)))

\* C2: after strict redaction with the entity set extracted from the same text,
\* the safe text holds no extracted email with a local part longer than 2, no
\* extracted handle, no extracted name (in any letter case) and no text span
\* that yielded an extracted phone
C2_ExtractedValuesDoNotLeak ==
  (RedactedExtracted /\ call.mode = "strict") =>
    LET E == call.entities
        safe == redacted.safe_text
        spans == PhoneSpans(call.text)
    IN  /\ \A k \in 1..Len(E.emails) :
             Len(LocalPart(E.emails[k])) > 2 => ~Occurs(E.emails[k], safe)
        /\ \A k \in 1..Len(E.handles) : ~Occurs(E.handles[k], safe)
        /\ \A k \in 1..Len(E.names) : ~Occurs(toLowerCase(E.names[k]), toLowerCase(safe))
        /\ \A k \in 1..Len(spans) : ~Occurs(spans[k], safe)

\* every replacement that F writes for a match of re in s occurs in safe
Survive(re, s, F(_), safe) ==
  LET ms == MatchStrings(re, s)
  IN  \A k \in 1..Len(ms) : Occurs(F(ms[k]), safe)

\* C3: the replacements written by the URL, email, phone and handle steps, in
\* that order, each on the result of the step before, are all still present
\* in the safe text that redaction returns
C3_EarlierReplacementsSurvive ==
  (Redacted /\ Truthy(call.text)) =>
    LET t == call.text
        safe == redacted.safe_text
    IN  /\ Survive(URL_RE, t, maskUrl, safe)
        /\ Survive(Redact_EMAIL_RE, afterUrl(t), maskEmail, safe)
        /\ Survive(PHONE_RE, afterEmail(t), formatMaskedPhone, safe)
        /\ Survive(HANDLE_RE, afterPhone(t), maskHandle, safe)

\* n stands in s after position k as whole words, letter case aside: no
\* letter, digit or underscore directly before or after it
WholeWordAt(s, n, k) ==
  /\ k + Len(n) <= Len(s)
  /\ toLowerCase(SubSeq(s, k + 1, k + Len(n))) = toLowerCase(n)
  /\ ~IsWordAt(s, k)
  /\ ~IsWordAt(s, k + Len(n) + 1)

\* s from position k on, every whole-word occurrence of n replaced by mask
RECURSIVE MaskWhole(_, _, _, _)
MaskWhole(s, n, mask, k) ==
  IF k >= Len(s) THEN SubSeq(s, k + 1, Len(s))
  ELSE IF WholeWordAt(s, n, k) THEN mask \o MaskWhole(s, n, mask, k + Len(n))
  ELSE <<s[k + 1]>> \o MaskWhole(s, n, mask, k + 1)

FirstCharMask(n) ==
  LET ws == SplitWords(n)
  IN  Flatten([k \in 1..Len(ws) |->
                 <<ws[k][1], "*", "*", "*">> \o (IF k < Len(ws) THEN <<" ">> ELSE <<>>)])

RECURSIVE MaskNames(_, _, _)
MaskNames(s, names, k) ==
  IF k > Len(names) THEN s
  ELSE IF names[k] = <<>> THEN MaskNames(s, names, k + 1)
  ELSE MaskNames(MaskWhole(s, names[k], FirstCharMask(names[k]), 0), names, k + 1)

\* C4: the strict name step replaces exactly the whole-word occurrences of each
\* non-empty name, letter case aside and character by character, by the
\* first-character mask of the name, and leaves the rest of the text as it was
C4_NamesMaskedAsWholeWords ==
  (Redacted /\ call.mode = "strict" /\ Truthy(call.text)) =>
    redacted.safe_text = MaskNames(afterHandle(call.text), call.entities.names, 1)

\* C5: a normal-mode call returns the safe text of the strict call with no
\* names, and an entity set without names
C5_NormalModeIgnoresNames ==
  (call.tool = "redact" /\ call.mode = "normal") =>
    /\ redacted.thrown = "none"
    /\ redacted.safe_text =
         redactContent(call.text, [call.entities EXCEPT !.names = <<>>], "strict").safe_text
    /\ "names" \notin redacted.safe_entities.keys
    /\ redacted.safe_entities.names = <<>>

\* a normal-mode call whose entity set names something that stands in the text
C5_Witness ==
  /\ Redacted
  /\ call.mode = "normal"
  /\ \E k \in 1..Len(call.entities.names) :
       /\ call.entities.names[k] # <<>>
       /\ Occurs(call.entities.names[k], call.text)

\* C6: each extracted value is masked in the safe entity set exactly as strict
\* redaction masks it when it is the whole text (a name with itself as the
\* only supplied name)
C6_EntityMaskEqualsTextMask ==
  (RedactedExtracted /\ call.mode = "strict") =>
    LET E == call.entities
        S == redacted.safe_entities
    IN  /\ \A k \in 1..Len(E.emails) : S.emails[k] = redactText(E.emails[k], "strict", <<>>)
        /\ \A k \in 1..Len(E.phones) : S.phones[k] = redactText(E.phones[k], "strict", <<>>)
        /\ \A k \in 1..Len(E.handles) : S.handles[k] = redactText(E.handles[k], "strict", <<>>)
        /\ \A k \in 1..Len(E.names) : S.names[k] = redactText(E.names[k], "strict", <<E.names[k]>>)

EmptyTexts == {<<>>, Undefined, Null}

\* C10: no call throws; extraction of an empty, missing or null text returns
\* four empty arrays, and redaction of an empty text returns the empty text
C10_DegradeInsteadOfFailing ==
  /\ extracted.thrown = "none"
  /\ redacted.thrown = "none"
  /\ (call.tool = "extract_entities" /\ call.text \in EmptyTexts) =>
       /\ extracted.keys = Keys
       /\ EntitiesOf(extracted) = Entities(Keys, <<>>, <<>>, <<>>, <<>>)
  /\ (call.tool = "redact" /\ call.text = <<>>) => redacted.safe_text = <<>>

\* a strict call on a non-empty text with a supplied name made of a pattern
\* character has returned
C10_Witness ==
  /\ Redacted
  /\ call.mode = "strict"
  /\ Truthy(call.text)
  /\ \E k \in 1..Len(call.entities.names) :
       /\ Len(call.entities.names[k]) = 1
       /\ call.entities.names[k][1] \in SyntaxChars

Extracted == call.tool = "extract_entities" /\ extracted.thrown = "none"

NoDup(q) == \A i, j \in 1..Len(q) : i # j => q[i] # q[j]

FirstIdx(q, v) == CHOOSE k \in 1..Len(q) : q[k] = v /\ \A j \in 1..(k - 1) : q[j] # v

\* res holds values of seen only, in the order in which each is first seen
InFirstSeenOrder(seen, res) ==
  /\ \A k \in 1..Len(res) : InSeq(seen, res[k])
  /\ \A i, j \in 1..Len(res) : i < j => FirstIdx(seen, res[i]) < FirstIdx(seen, res[j])

\* the candidates pushed by extractNameCandidates, before de-duplication
SeenNames(raw) == ScanLines(Take(SplitLines(raw), MaxLines), MaxNames)

\* C7: no category of an extraction result repeats a value; every email match
\* of the text is reported once, in lower case; each category is in first-seen
\* order
C7_NoRepeatedValue ==
  Extracted =>
    LET raw == rawText(call.text)
        mails == MatchStrings(Extract_EMAIL_RE, raw)
    IN  /\ NoDup(extracted.emails) /\ NoDup(extracted.phones)
        /\ NoDup(extracted.handles) /\ NoDup(extracted.names)
        /\ \A k \in 1..Len(mails) : InSeq(extracted.emails, toLowerCase(mails[k]))
        /\ \A k \in 1..Len(extracted.emails) :
             extracted.emails[k] = toLowerCase(extracted.emails[k])
        /\ InFirstSeenOrder(Map(mails, toLowerCase), extracted.emails)
        /\ InFirstSeenOrder(rawPhones(raw), extracted.phones)
        /\ InFirstSeenOrder(rawHandles(raw), extracted.handles)
        /\ InFirstSeenOrder(SeenNames(raw), extracted.names)

\* the text holds one address twice, in two letter cases, and it is reported once
C7_Witness ==
  /\ Extracted
  /\ LET mails == MatchStrings(Extract_EMAIL_RE, rawText(call.text))
     IN  \E i, j \in 1..Len(mails) :
           mails[i] # mails[j] /\ toLowerCase(mails[i]) = toLowerCase(mails[j])
  /\ Len(extracted.emails) = 1

DigitsOf(c) == SelectSeq(c, LAMBDA d : d \in Digit)

ExpectedPhone(c) == (IF c[1] = "+" THEN <<"+">> ELSE <<>>) \o DigitsOf(c)

\* C8: a phone candidate is reported exactly when it has 7 to 16 digits, as
\* its digits in order after a "+" exactly when the candidate began with "+",
\* and nothing else is reported; "Call +1 212-555-1234 now" gives +12125551234
C8_PhoneReportedByDigitCount ==
  Extracted =>
    LET cands == MatchStrings(PHONE_RE, rawText(call.text))
    IN  /\ \A k \in 1..Len(cands) :
             (Len(DigitsOf(cands[k])) >= 7 /\ Len(DigitsOf(cands[k])) <= 16)
               <=> InSeq(extracted.phones, ExpectedPhone(cands[k]))
        /\ \A j \in 1..Len(extracted.phones) :
             \E k \in 1..Len(cands) : extracted.phones[j] = ExpectedPhone(cands[k])
        /\ call.text = CallExample =>
             extracted.phones = <<<<"+","1","2","1","2","5","5","5","1","2","3","4">>>>

\* a candidate of more than 16 digits was matched and is not reported
C8_Witness ==
  /\ Extracted
  /\ LET cands == MatchStrings(PHONE_RE, rawText(call.text))
     IN  \E k \in 1..Len(cands) :
           /\ Len(DigitsOf(cands[k])) > 16
           /\ cands[k][1] = "+"
           /\ ~InSeq(extracted.phones, ExpectedPhone(cands[k]))

\* the positions of raw that lie in a span matched as an email
EmailPositions(raw) ==
  LET ms == matchAll(Extract_EMAIL_RE, raw)
  IN  {p \in 1..Len(raw) : \E k \in 1..Len(ms) : ms[k][1] < p /\ p <= ms[k][2]}

\* the positions, in the scanned text, of "@" and the user name of match m
HandlePositions(txt, m) == {p \in (m[1] + 1)..m[2] : p > m[1] + 1 \/ txt[p] = "@"}

HandleShape(h) ==
  /\ h # <<>> /\ h[1] = "@"
  /\ Len(h) - 1 >= 3 /\ Len(h) - 1 <= 30
  /\ \A k \in 2..Len(h) : h[k] \in Alpha \cup Digit \cup {".", "_", "-"}
  /\ h[Len(h)] # "."

\* C9: every reported handle comes from a handle match none of whose
\* characters lies in a span of the text matched as an email, and is "@" and
\* 3 to 30 letters, digits, ".", "_" or "-", the last one not a dot
C9_HandlesOutsideEmails ==
  Extracted =>
    LET raw == rawText(call.text)
        src == handleSource(raw)
        ms == matchAll(HANDLE_RE, src.txt)
    IN  \A j \in 1..Len(extracted.handles) :
          /\ HandleShape(extracted.handles[j])
          /\ \E k \in 1..Len(ms) :
               /\ normalizeHandle(HandleUser(Slice(src.txt, ms[k][1], ms[k][2]))) = extracted.handles[j]
               /\ \A p \in HandlePositions(src.txt, ms[k]) :
                    src.org[p] \in 1..Len(raw) /\ src.org[p] \notin EmailPositions(raw)
                    /\ raw[src.org[p]] = src.txt[p]

\* the raw text has a handle-shaped match that runs into an email span, a
\* handle is reported, and it is not that one
C9_Witness ==
  /\ Extracted
  /\ extracted.handles # <<>>
  /\ LET raw == rawText(call.text)
         ms == matchAll(HANDLE_RE, raw)
     IN  \E k \in 1..Len(ms) :
           /\ \E p \in HandlePositions(raw, ms[k]) : p \in EmailPositions(raw)
           /\ ~InSeq(extracted.handles, normalizeHandle(HandleUser(Slice(raw, ms[k][1], ms[k][2]))))

\* the bytes a finished hash was computed from are those of the data URI when
\* the image is one
BufferOfArgument ==
  isDataUri(hashing.image) => hashing.buf = bufferFromBase64(base64Part(hashing.image))

\* C11: in every sequence and interleaving of calls to extractEntities,
\* redactContent and the hash computation, each result is the function of the
\* call's own arguments (of the bytes loaded, for the hash), so equal inputs
\* give equal outputs; no module-level regex keeps a match position between
\* calls
C11_ResultsDependOnArgumentsOnly ==
  /\ lastIndex = ZeroIndex
  /\ call.tool = "extract_entities" => extracted = extractEntities(call.text)
  /\ call.tool = "redact" => redacted = redactContent(call.text, call.entities, call.mode)
  /\ hashing.pc = "done" =>
       /\ BufferOfArgument
       /\ hashing.result = hashOfPixels(toGrayscaleMatrix(hashing.buf))

\* a tip with a phone number was extracted, redacted with the extracted
\* entities and redacted again while a hash call was waiting for sharp after
\* its fetch
C11_Witness ==
  /\ call.tool = "redact"
  /\ call.again
  /\ extracted.phones # <<>>
  /\ call.entities = EntitiesOf(extracted)
  /\ hashing.pc = "decoding"
  /\ hashing.fetches = 1

LowerHex == {"0", "1", "2", "3", "4", "5", "6", "7", "8", "9", "a", "b", "c", "d", "e", "f"}

\* C12: for every image that was decoded, phashImage returns an object with
\* algo 'phash-dct-8x8', size 64 and a hash of exactly 16 characters, each of
\* them one of 0-9a-f
C12_HashShape ==
  hashing.pc = "done" =>
    /\ DOMAIN hashing.result = {"hash", "algo", "size"}
    /\ hashing.result.algo = "phash-dct-8x8"
    /\ hashing.result.size = 64
    /\ Len(hashing.result.hash) = 16
    /\ \A k \in 1..Len(hashing.result.hash) : hashing.result.hash[k] \in LowerHex

\* an image fetched from an http(s) URL was decoded and hashed, and the hash
\* holds a letter digit
C12_Witness ==
  /\ hashing.pc = "done"
  /\ hashing.fetches = 1
  /\ \E k \in 1..Len(hashing.result.hash) : hashing.result.hash[k] \in {"a", "b", "c", "d", "e", "f"}

Settled == hashing.pc \in {"done", "failed"}

\* the call failed without a fetch and without a decoding
FailedAtOnce ==
  /\ hashing.pc = "failed"
  /\ hashing.fetches = 0
  /\ hashing.decodes = 0

\* C13: phashImage fails, with an error and no hash, when the image is
\* missing, empty or no string, when the reference is neither a supported
\* data:image base64 URI nor an http(s) URL that parses, when the response is
\* not ok, and when the bytes cannot be decoded; the failures of the input
\* type and of the scheme come before any fetch or decoding; a data URI causes
\* no fetch; nothing is tried a second time
C13_FailuresOfPhashImage ==
  /\ hashing.pc = "failed" => hashing.error # "none" /\ hashing.result = NoHash
  /\ hashing.pc = "done" => hashing.error = "none"
  /\ (hashing.pc # "idle" /\ hashing.image \in BadInputs \cup OtherRefs) => FailedAtOnce
  /\ (hashing.pc # "idle" /\ hashing.image \in DataUris) => hashing.fetches = 0
  /\ hashing.error \in FetchErrors \cup {"fetch rejected"} =>
       hashing.pc = "failed" /\ hashing.decodes = 0
  /\ (Settled /\ hashing.decodes = 1 /\ ~Decodable(hashing.buf)) => hashing.pc = "failed"
  /\ hashing.fetches <= 1
  /\ hashing.decodes <= 1

\* a fetch was answered with a status that is not ok: the call has failed and
\* nothing was decoded
C13_Witness ==
  /\ hashing.pc = "failed"
  /\ hashing.error \in FetchErrors
  /\ hashing.fetches = 1
  /\ hashing.decodes = 0

\* the value of a hex digit
NibbleOf(c) == IndexOf(HexDigits, c) - 1

BitOf(n, k) == (n \div (2 ^ k)) % 2

\* the number of the bits in which two hashes of equal length differ
Hamming(h1, h2) ==
  Cardinality({p \in (1..Len(h1)) \X (0..3) :
                 BitOf(NibbleOf(h1[p[1]]), p[2]) # BitOf(NibbleOf(h2[p[1]]), p[2])})

\* the constants added to every pixel
Offsets == {1, 10, 100, 200}

\* C14: the hash of a 32x32 grid and the hash of the same grid with every
\* pixel increased by a constant, clamped to 0..255, are identical or differ
\* in at most 4 of the 64 bits
C14_OffsetInvariance ==
  hashing.pc = "done" =>
    \A c \in Offsets :
      Hamming(hashing.result.hash,
              hashOfPixels(clampAdd(toGrayscaleMatrix(hashing.buf), c)).hash) <= 4

\* n stands in s, character for character
IsSubstring(n, s) == \E i \in 1..(Len(s) - Len(n) + 1) : SubSeq(s, i, i + Len(n) - 1) = n

\* C15: every extracted name is a literal substring of the input text, with the
\* characters that stand between its tokens in the text
C15_NamesAreSubstrings ==
  Extracted => \A k \in 1..Len(extracted.names) : IsSubstring(extracted.names[k], call.text)

\* the tokens of a line: the matches of WORD_RE in the trimmed line
WordsOfLine(line) == MatchStrings(WORD_RE, trim(line))

\* an upper-case letter followed by one or more letters, apostrophes or hyphens
Capitalized(w) ==
  /\ Len(w) >= 2
  /\ w[1] \in UniUpper
  /\ \A k \in 2..Len(w) : w[k] \in UniLetter \cup {"'", "-"}

NameToken(w) == Capitalized(w) /\ toLowerCase(w) \notin StopWords

\* the n tokens of words from the i-th on are name tokens
RunAt(words, i, n) == i + n - 1 <= Len(words) /\ \A k \in i..(i + n - 1) : NameToken(words[k])

RECURSIVE JoinWords(_, _, _)
JoinWords(words, i, n) ==
  IF n = 1 THEN words[i] ELSE words[i] \o <<" ">> \o JoinWords(words, i + 1, n - 1)

\* name is a run of n name tokens of one line of the text
IsRunOf(name, lines, n) ==
  \E l \in 1..Len(lines) :
    \E i \in 1..Len(WordsOfLine(lines[l])) :
      RunAt(WordsOfLine(lines[l]), i, n) /\ name = JoinWords(WordsOfLine(lines[l]), i, n)

\* the first place of a line where two name tokens follow one another, 0 when
\* there is none
FirstPair(words) ==
  IF \E i \in 1..Len(words) : RunAt(words, i, 2)
  THEN CHOOSE i \in 1..Len(words) : RunAt(words, i, 2) /\ \A j \in 1..(i - 1) : ~RunAt(words, j, 2)
  ELSE 0

Has(names, name) == \E k \in 1..Len(names) : names[k] = name

\* the first pair of a line that the scan reaches, and the triple when a
\* third name token follows it, are names
FirstPairEmitted(names, words, at) ==
  at > 0 =>
    /\ Has(names, JoinWords(words, at, 2))
    /\ RunAt(words, at, 3) => Has(names, JoinWords(words, at, 3))

\* names against the lines of the text; seen are the candidates pushed
NamesAreRuns(names, lines, seen) ==
  /\ \A k \in 1..Len(names) :
       /\ IsRunOf(names[k], lines, 2) \/ IsRunOf(names[k], lines, 3)
       /\ Len(WordsOfLine(names[k])) \in {2, 3}
       /\ Len(WordsOfLine(names[k])) = 3 => Has(names, JoinWords(WordsOfLine(names[k]), 1, 2))
  /\ Len(seen) < 20 =>
       \A l \in 1..Len(lines) :
         (l <= 500 /\ Tokenized(lines[l])) =>
           FirstPairEmitted(names, WordsOfLine(lines[l]), FirstPair(WordsOfLine(lines[l])))
  /\ (\A l \in 1..Len(lines) : Len(WordsOfLine(lines[l])) <= 1) => names = <<>>

HasLink(line) ==
  \/ IsSubstring(<<"h", "t", "t", "p", ":", "/", "/">>, toLowerCase(line))
  \/ IsSubstring(<<"h", "t", "t", "p", "s", ":", "/", "/">>, toLowerCase(line))

\* the line holds an '@' followed by a word character
HasAtWord(line) == \E i \in 1..(Len(line) - 1) : line[i] = "@" /\ line[i + 1] \in WordChar

\* name is a run of 2 or 3 name tokens of a line of the text that is among
\* the first 500 and holds neither a link nor an '@' before a word character
FromEligibleLine(name, lines) ==
  \E l \in 1..Len(lines) :
    /\ l <= 500
    /\ ~HasLink(lines[l])
    /\ ~HasAtWord(lines[l])
    /\ IsRunOf(name, <<lines[l]>>, 2) \/ IsRunOf(name, <<lines[l]>>, 3)

\* C17: names holds at most 20 values, in first-seen order, and each of them
\* comes from a line that is among the first 500 lines of the text and holds
\* neither an http(s):// link nor an '@' followed by a word character; lines
\* after the 500th and lines that are skipped contribute nothing
C17_NamesLimits ==
  Extracted =>
    /\ Len(extracted.names) <= 20
    /\ NoDup(extracted.names)
    /\ InFirstSeenOrder(SeenNames(rawText(call.text)), extracted.names)
    /\ \A k \in 1..Len(extracted.names) :
         FromEligibleLine(extracted.names[k], SplitLines(rawText(call.text)))

\* 24 name tokens on one line push more than 20 candidates: the first 20 are
\* reported
C17_Witness ==
  /\ Extracted
  /\ Len(extracted.names) = 20
  /\ Len(SeenNames(rawText(call.text))) > 20

\* the text has 501 lines and the 500th gives a name
C17_WitnessLines ==
  /\ Extracted
  /\ Len(SplitLines(rawText(call.text))) > 500
  /\ extracted.names # <<>>

Range(q) == {q[k] : k \in 1..Len(q)}

\* the email m = local@domain with every character of the local part after
\* the second replaced by '*'
TwoThenStars(m) ==
  [k \in 1..Len(m) |-> IF k <= 2 \/ k >= IndexOf(m, "@") THEN m[k] ELSE "*"]

\* the characters of the local part of m that stand unchanged in masked
Survivors(m, masked) == {k \in 1..(IndexOf(m, "@") - 1) : masked[k] = m[k]}

\* the text that step 2 of redactText works on, and what it makes of it
EmailStepIn(text) == afterUrl(text)
EmailStepOut(text) == afterEmail(text)

\* C18: every span that step 2 of the text redaction matches as an email is
\* replaced by its first min(2, length) local-part characters, one '*' for
\* each further local-part character, '@' and the domain unchanged; the
\* masked email is as long as the original, and at most 2 characters of the
\* local part survive
C18_EmailMask ==
  (Redacted /\ Truthy(call.text)) =>
    /\ EmailStepOut(call.text) =
         replaceMatches(EmailStepIn(call.text),
                        matchAll(Redact_EMAIL_RE, EmailStepIn(call.text)), TwoThenStars)
    /\ \A m \in Range(MatchStrings(Redact_EMAIL_RE, EmailStepIn(call.text))) :
         /\ Len(maskEmail(m)) = Len(m)
         /\ Cardinality(Survivors(m, maskEmail(m))) <= 2
         /\ SubSeq(maskEmail(m), IndexOf(m, "@"), Len(m)) = SubSeq(m, IndexOf(m, "@"), Len(m))

\* a text with an address whose local part has more than two characters was
\* redacted
C18_Witness ==
  /\ Redacted
  /\ Truthy(call.text)
  /\ \E m \in Range(MatchStrings(Redact_EMAIL_RE, EmailStepIn(call.text))) : IndexOf(m, "@") > 3
  /\ EmailStepOut(call.text) # EmailStepIn(call.text)

\* the places of the digits of v
DigitPlaces(v) == {k \in 1..Len(v) : v[k] \in Digit}

Greatest(S) == CHOOSE k \in S : \A j \in S : j <= k

\* the last two digits of v; the only digit when v holds one
LastTwoDigits(v) ==
  IF Cardinality(DigitPlaces(v)) = 1 THEN <<v[Greatest(DigitPlaces(v))]>>
  ELSE <<v[Greatest(DigitPlaces(v) \ {Greatest(DigitPlaces(v))})], v[Greatest(DigitPlaces(v))]>>

\* '[REDACTED_PHONE:••dd]', and '[REDACTED_PHONE]' for a value without a digit
PhonePlaceholder(v) ==
  IF DigitPlaces(v) = {}
  THEN <<"[", "R", "E", "D", "A", "C", "T", "E", "D", "_", "P", "H", "O", "N", "E", "]">>
  ELSE <<"[", "R", "E", "D", "A", "C", "T", "E", "D", "_", "P", "H", "O", "N", "E", ":", Bullet, Bullet>>
       \o LastTwoDigits(v) \o <<"]">>

PhoneStepIn(text) == afterEmail(text)
PhoneStepOut(text) == afterPhone(text)

SuppliedPhones == IF "phones" \in call.entities.keys THEN call.entities.phones ELSE <<>>

\* C19, as stated: every value of entities.phones is replaced by a placeholder
\* that holds the last two digits of the value, or by the generic placeholder
\* when the value holds no digit
C19_EveryPhoneValueTwoDigits ==
  Redacted =>
    /\ Len(redacted.safe_entities.phones) = Len(SuppliedPhones)
    /\ \A k \in 1..Len(SuppliedPhones) :
         /\ redacted.safe_entities.phones[k] = PhonePlaceholder(SuppliedPhones[k])
         /\ Len(DigitsOf(redacted.safe_entities.phones[k])) \in {0, 2}

\* C19, amended: every phone-like substring matched in free text, and every
\* distinct non-empty value of entities.phones, is replaced by
\* '[REDACTED_PHONE:..dd]' where dd are the last two digits of the value (its
\* only digit when it holds one), and by '[REDACTED_PHONE]' when it holds no
\* digit; no digit other than those is retained
C19_PhonePlaceholders ==
  Redacted =>
    /\ Truthy(call.text) =>
         /\ PhoneStepOut(call.text) =
              replaceMatches(PhoneStepIn(call.text),
                             matchAll(PHONE_RE, PhoneStepIn(call.text)), PhonePlaceholder)
         /\ \A m \in Range(MatchStrings(PHONE_RE, PhoneStepIn(call.text))) :
              DigitsOf(formatMaskedPhone(m)) = SubSeq(DigitsOf(m), Len(DigitsOf(m)) - 1, Len(DigitsOf(m)))
    /\ redacted.safe_entities.phones = Map(uniq(SuppliedPhones), PhonePlaceholder)
    /\ \A k \in 1..Len(redacted.safe_entities.phones) :
         Len(DigitsOf(redacted.safe_entities.phones[k])) <= 2

\* a text with a phone-like substring was redacted together with phone values
\* of seven digits, of one digit and of none
C19_Witness ==
  /\ Redacted
  /\ Truthy(call.text)
  /\ MatchStrings(PHONE_RE, PhoneStepIn(call.text)) # <<>>
  /\ \E k \in 1..Len(SuppliedPhones) : Len(DigitsOf(SuppliedPhones[k])) = 1
  /\ \E k \in 1..Len(SuppliedPhones) : Len(DigitsOf(SuppliedPhones[k])) = 7
  /\ \E k \in 1..Len(redacted.safe_entities.phones) :
       DigitsOf(redacted.safe_entities.phones[k]) = <<>>

\* the handle match m (white space or nothing, '@', user name) with every
\* character after the first one of the user name replaced by '*'
FirstThenStars(m) ==
  [k \in 1..Len(m) |-> IF k <= IndexOf(m, "@") + 1 THEN m[k] ELSE "*"]

\* the shape check: an optional '@', then 1 to 64 letters, digits, '_', '.', '-'
UserOf(h) == IF h # <<>> /\ h[1] = "@" THEN Tail(h) ELSE h

HasShape(h) ==
  /\ Len(UserOf(h)) \in 1..64
  /\ \A k \in 1..Len(UserOf(h)) : UserOf(h)[k] \in Alpha \cup Digit \cup {"_", ".", "-"}

\* '@', the first character of the user name and a star for each further one
\* when checked passes the shape check, '@***' when it does not
HandleValueMask(h, checked) ==
  IF HasShape(checked)
  THEN <<"@", UserOf(checked)[1]>> \o [k \in 1..(Len(UserOf(checked)) - 1) |-> "*"]
  ELSE <<"@", "*", "*", "*">>

HandleStepIn(text) == afterPhone(text)
HandleStepOut(text) == afterHandle(text)

SuppliedHandles == IF "handles" \in call.entities.keys THEN call.entities.handles ELSE <<>>

\* C20, as stated: in the entity set a handle value that fails the shape check
\* becomes '@***', and a value that passes it becomes '@', its first character
\* and stars
C20_HandleValuesByShape ==
  Redacted =>
    redacted.safe_entities.handles =
      Map(uniq(SuppliedHandles), LAMBDA h : HandleValueMask(h, h))

\* C20, amended: in free text every handle match (start of text or white
\* space, '@', user name) is replaced by the same white space, '@', the first
\* character of the user name and one '*' for each further one; in the entity
\* set a handle value is checked without the white space around it: when that
\* fails the shape check (an optional '@', then 1 to 64 letters, digits, '_',
\* '.', '-') the value becomes '@***', when it passes, '@', the first
\* character and stars
C20_HandleMasks ==
  Redacted =>
    /\ Truthy(call.text) =>
         HandleStepOut(call.text) =
           replaceMatches(HandleStepIn(call.text),
                          matchAll(HANDLE_RE, HandleStepIn(call.text)), FirstThenStars)
    /\ redacted.safe_entities.handles =
         Map(uniq(SuppliedHandles), LAMBDA h : HandleValueMask(h, trim(h)))

\* a text with a handle after white space was redacted together with handle
\* values that pass the check, fail it, and pass it once trimmed
C20_Witness ==
  /\ Redacted
  /\ Truthy(call.text)
  /\ \E m \in Range(MatchStrings(HANDLE_RE, HandleStepIn(call.text))) : m[1] # "@"
  /\ \E k \in 1..Len(SuppliedHandles) : HasShape(SuppliedHandles[k])
  /\ \E k \in 1..Len(SuppliedHandles) : ~HasShape(trim(SuppliedHandles[k]))
  /\ \E k \in 1..Len(SuppliedHandles) :
       ~HasShape(SuppliedHandles[k]) /\ HasShape(trim(SuppliedHandles[k]))

\* the i-th of the 64 bits of a hash, the first one being the most significant
\* bit of the first hex character
HashBit(hash, i) == BitOf(NibbleOf(hash[(i - 1) \div 4 + 1]), 3 - ((i - 1) % 4))

\* the row sums of the grid that the hashed buffer was decoded to
HashedRows == RowSums(toGrayscaleMatrix(hashing.buf))

\* the coefficients of the 8x8 block but the one at (0,0), rows being the row
\* sums of the grid
NonDC(rows) ==
  SubSeq([k \in 1..(BlockSize * BlockSize - 1) |-> Coeff(rows, k % BlockSize, k \div BlockSize)],
         1, BlockSize * BlockSize - 1)

\* the median of an odd number of values: the one value of vs with no more
\* than half of the others below it and no more than half above it
Middle(vs) ==
  CHOOSE m \in {vs[k] : k \in 1..Len(vs)} :
    /\ Cardinality({k \in 1..Len(vs) : vs[k] < m}) <= Len(vs) \div 2
    /\ Cardinality({k \in 1..Len(vs) : vs[k] > m}) <= Len(vs) \div 2

\* bit 8 * y + x + 1 of the hash is 1 exactly when dct[y][x] is greater than m
BitsFollow(rows, hash, m) ==
  \A y \in 0..(BlockSize - 1), x \in 0..(BlockSize - 1) :
    HashBit(hash, BlockSize * y + x + 1) = 1 <=> Coeff(rows, x, y) > m

OnesFrom(hash, from) == Cardinality({i \in from..HashBits : HashBit(hash, i) = 1})

\* no two values of vs are equal
AllDistinct(vs) == Cardinality({vs[k] : k \in 1..Len(vs)}) = Len(vs)

\* C22: at most 31 of the 63 bits after the first one are 1 in any hash, so a
\* hash has at most 32 bits that are 1; when the 63 coefficients other than
\* the one at (0,0) are all distinct, exactly 31 of those 63 bits are 1
C22_SetBits ==
  hashing.pc = "done" =>
    /\ OnesFrom(hashing.result.hash, 2) <= 31
    /\ OnesFrom(hashing.result.hash, 1) <= 32
    /\ AllDistinct(NonDC(HashedRows)) => OnesFrom(hashing.result.hash, 2) = 31

\* a hash of 63 distinct coefficients and the one at (0,0): 32 bits are 1
C22_Witness ==
  /\ hashing.pc = "done"
  /\ AllDistinct(NonDC(HashedRows))
  /\ OnesFrom(hashing.result.hash, 2) = 31
  /\ OnesFrom(hashing.result.hash, 1) = 32

\* the screenshots of a call in which nothing fails
ExpectedShots(f) ==
  IF ~f.screenshot THEN <<>>
  ELSE IF f.maxScreenshots > 1 THEN <<"fullpage", "mobile">>
  ELSE <<"fullpage">>

\* the page was read and every screenshot asked for was taken
Complete(f) ==
  f.result.html /\ f.result.text /\ f.result.shots = ExpectedShots(f)

\* warnings holds an error of a call awaited in the try block
ErrorRecorded(f) ==
  \E k \in 1..Len(f.result.warnings) :
    f.result.warnings[k][1] = "Fetch error" /\ f.result.warnings[k][2] \in TrySteps

\* fetchUrl throws for a URL that validateUrl rejects and for no other, and
\* before any launch
ThrowsOnValidationOnly ==
  /\ fetchRun.pc = "thrown" =>
       /\ validateUrl(fetchRun.url) # "ok"
       /\ fetchRun.thrown = validateUrl(fetchRun.url)
       /\ fetchRun.launches = 0 /\ fetchRun.browser = "null" /\ fetchRun.page = "null"
  /\ fetchRun.launches > 0 =>
       /\ validateUrl(fetchRun.url) = "ok"
       /\ fetchRun.pc # "thrown" /\ fetchRun.thrown = "none"

\* a call that returns has either done all its work or recorded the error
\* that ended it
ErrorsAreWarnings ==
  fetchRun.pc = "returned" => (Complete(fetchRun) <=> ~ErrorRecorded(fetchRun))

\* close() was called on every page and browser the call holds; nothing is
\* open unless browser.close() rejected
CloseCalled ==
  fetchRun.pc = "returned" =>
    /\ fetchRun.page # "null" => "page" \in fetchRun.closes
    /\ fetchRun.browser # "null" => "browser" \in fetchRun.closes
    /\ "browser" \notin fetchRun.closeFailed =>
         fetchRun.page # "open" /\ fetchRun.browser # "open"

\* C23 as stated, its last part: every page and browser that was opened is
\* closed when fetchUrl returns, on the success path and on every failure path
C23_ClosedAtReturn ==
  fetchRun.pc = "returned" => fetchRun.page # "open" /\ fetchRun.browser # "open"

\* C23: fetchUrl throws only when the URL validation fails, and before any
\* browser is launched; once the launch is attempted, every error of the
\* launch, the navigation, the reading of the content or a screenshot is
\* recorded in warnings and a result object is returned; before it returns,
\* close() is called on every page and browser that was opened, and none is
\* left open unless browser.close() itself fails, an error that is discarded
C23_FetchUrlOutcome ==
  /\ [](ThrowsOnValidationOnly /\ ErrorsAreWarnings /\ CloseCalled)
  /\ (fetchRun.launches > 0) ~> (fetchRun.pc = "returned")

\* a call whose navigation failed: the error is the one warning, the page and
\* the browser were closed, and the result is returned
C23_Witness ==
  /\ fetchRun.pc = "returned"
  /\ fetchRun.result.warnings = <<<<"Fetch error", "page.goto">>>>
  /\ fetchRun.closes = {"page", "browser"}
  /\ fetchRun.page = "closed" /\ fetchRun.browser = "closed"
  /\ ~Complete(fetchRun)

====
